---- MODULE Spec2Model ----
(***************************************************************************)
(* Model of monitor-tui: the per-site history stores, the alert detector   *)
(* (AlertDetector::evaluate) and the alert history, driven through         *)
(* App::handle_check_result; the stores and their queries on their own;    *)
(* and the checker tasks, the channels and the main loop of main.rs.       *)
(***************************************************************************)
EXTENDS Integers, Sequences, FiniteSets, TLC

VARIABLES
    config,         \* Config: settings + per-site settings (fixed after load)
    now,            \* the wall clock read by Utc::now(), in seconds
    sites,          \* App.sites: site name -> SiteHistory
    site_states,    \* AlertDetector.site_states: site name -> SiteAlertState
    alert_history,  \* App.alert_history: AlertHistory
    fed             \* per name, the calls of handle_check_result so far:
                    \* the status fed, the transition evaluate returned, the
                    \* transition it computed, and the time of an accepted alert

VARIABLES
    log,            \* every element appended to the store under study, in order,
                    \* or the inputs of the calls under study
    out             \* the value returned by the last call, when it was a query

VARIABLES
    pc,             \* checker task of a site: where its loop stands
    held,           \* checker task of a site: the result of its last probe
    timer,          \* checker task of a site: what is left of its sleep
    refresh,        \* force_refresh receiver of a site: signals not yet received
    chan,           \* the mpsc channel of (site name, result), oldest first
    shutdown,       \* the watch channel: shutdown_tx.send(true) has happened
    main_pc,        \* where main stands
    notified,       \* the alerts handed to notifier.notify, in order
    probes,         \* number of probes completed so far
    late,           \* per site, the probes begun after shutdown was sent
    refreshes,      \* number of force_refresh signals sent so far
    probed,         \* per site, the results of its probes, in the order probed
    finished        \* the positions in notified whose notify call has returned

query_vars == <<log, out>>
sched_vars == <<pc, held, timer, refresh, chan, shutdown, main_pc, notified,
                probes, late, refreshes, probed, finished>>
vars == <<config, now, sites, site_states, alert_history, fed,
          log, out, pc, held, timer, refresh, chan, shutdown, main_pc,
          notified, probes, late, refreshes, probed, finished>>

----------------------------------------------------------------------------
(* Bounds of the model *)

\* total number of samples handed to handle_check_result in one behaviour
MaxSamples == 4
\* number of clock advances in one behaviour
MaxTicks == 2
\* seconds added to the clock by one advance
TickSeconds == 150
\* largest consecutive_failures threshold a configuration is given
MaxThreshold == 2

----------------------------------------------------------------------------
(* Values *)

\* Option<T>: None is the empty sequence, Some(x) the one-element sequence
None == <<>>
Some(x) == <<x>>
unwrap(o) == o[1]

\* checker/types.rs: enum Status
Status == {"Up", "Down", "Warning"}

\* alerts/detector.rs: enum StatusTransition
StatusTransition ==
    {"UpToDown", "UpToWarn", "DownToUp", "WarnToDown", "WarnToUp", "DownToWarn"}

\* names of the sites of the configuration, and a name that is not configured
SiteNames == {"a", "b"}
UnknownNames == {"x"}
AllNames == SiteNames \cup UnknownNames

\* config.rs: default_cooldown_seconds / AlertSettings::default
default_cooldown_seconds == 300

\* config.rs: TransitionSettings::default
TransitionSettings_default ==
    [UpToDown |-> TRUE, UpToWarn |-> FALSE, DownToUp |-> TRUE,
     WarnToDown |-> TRUE, WarnToUp |-> TRUE, DownToWarn |-> FALSE]

\* config.rs: struct TransitionSettings, one flag per transition kind
TransitionSettings == [StatusTransition -> BOOLEAN]

\* config.rs: struct SiteAlertSettings (the fields evaluate reads); a site
\* without an [alerts] table has alerts = None
SiteAlertSettings ==
    [enabled : {Some(b) : b \in BOOLEAN} \cup {None},
     consecutive_failures : {Some(n) : n \in 0..MaxThreshold} \cup {None},
     cooldown_seconds : {Some(n) : n \in {0, default_cooldown_seconds}} \cup {None}]

\* checker/types.rs: CheckResult::new_down
new_down == [status |-> "Down", response_time_ms |-> None]

\* checker/types.rs: CheckResult::new_success; status is Warning on a status
\* mismatch or a slow response, Up otherwise
new_success(response_time_ms, warn) ==
    [status |-> IF warn THEN "Warning" ELSE "Up",
     response_time_ms |-> Some(response_time_ms)]

\* the check results a checker task can send
CheckResults == {new_down, new_success(1, FALSE), new_success(1, TRUE)}

----------------------------------------------------------------------------
(* history.rs: SiteHistory *)

\* SiteHistory::new
SiteHistory_new(max_size) == [results |-> <<>>, max_size |-> max_size]

\* VecDeque::pop_back in the place of pop_front: the newest element goes
pop_back(q) == IF Len(q) = 0 THEN q ELSE SubSeq(q, 1, Len(q) - 1)

\* VecDeque::pop_front: no effect on an empty queue
pop_front(q) == IF Len(q) = 0 THEN q ELSE Tail(q)

\* SiteHistory::add_result
add_result(h, result) ==
    LET kept == IF Len(h.results) >= h.max_size
                THEN pop_front(h.results) ELSE h.results
    IN  [h EXCEPT !.results = Append(kept, result)]

\* SiteHistory::latest
latest(h) == IF Len(h.results) = 0 THEN None ELSE Some(h.results[Len(h.results)])

----------------------------------------------------------------------------
(* alerts/history.rs: Alert, AlertSeverity, AlertHistory *)

\* AlertSeverity::from_transition
from_transition(transition) ==
    CASE transition \in {"UpToDown", "WarnToDown"} -> "Critical"
      [] transition = "UpToWarn" -> "Warning"
      [] transition \in {"DownToUp", "WarnToUp"} -> "Recovery"
      [] transition = "DownToWarn" -> "Warning"

\* Alert::new
Alert_new(site_name, transition, previous_status, current_status, timestamp) ==
    [timestamp |-> timestamp,
     site_name |-> site_name,
     transition |-> transition,
     severity |-> from_transition(transition),
     current_status |-> current_status,
     previous_status |-> previous_status]

\* AlertHistory::new
AlertHistory_new(max_size) == [alerts |-> <<>>, max_size |-> max_size]

\* AlertHistory::add_alert
add_alert(ah, alert) ==
    LET kept == IF Len(ah.alerts) >= ah.max_size
                THEN pop_front(ah.alerts) ELSE ah.alerts
    IN  [ah EXCEPT !.alerts = Append(kept, alert)]

----------------------------------------------------------------------------
(* alerts/detector.rs: StatusTransition, AlertDetector *)

\* variant of from_statuses: a recovery is always reported as DownToUp
from_statuses_recovery_as_down(from, to) ==
    CASE from = "Up" /\ to = "Down" -> Some("UpToDown")
      [] from = "Up" /\ to = "Warning" -> Some("UpToWarn")
      [] from = "Down" /\ to = "Up" -> Some("DownToUp")
      [] from = "Warning" /\ to = "Down" -> Some("WarnToDown")
      [] from = "Warning" /\ to = "Up" -> Some("DownToUp")
      [] from = "Down" /\ to = "Warning" -> Some("DownToWarn")
      [] OTHER -> None

\* StatusTransition::from_statuses
from_statuses(from, to) ==
    CASE from = "Up" /\ to = "Down" -> Some("UpToDown")
      [] from = "Up" /\ to = "Warning" -> Some("UpToWarn")
      [] from = "Down" /\ to = "Up" -> Some("DownToUp")
      [] from = "Warning" /\ to = "Down" -> Some("WarnToDown")
      [] from = "Warning" /\ to = "Up" -> Some("WarnToUp")
      [] from = "Down" /\ to = "Warning" -> Some("DownToWarn")
      [] OTHER -> None

\* the SiteAlertState AlertDetector::new gives every configured site
SiteAlertState_new ==
    [consecutive_failures |-> 0,
     last_alert_time |-> None,
     last_alert_status |-> None,
     stable_status |-> None]

\* variant of unwrap_or: the table of a site counts only when it sets every
\* field
unwrap_or_complete(site_alerts, field, global) ==
    IF site_alerts = None THEN global
    ELSE IF \E f \in DOMAIN unwrap(site_alerts) : unwrap(site_alerts)[f] = None
    THEN global
    ELSE unwrap(unwrap(site_alerts)[field])

\* site_alerts.as_ref().and_then(|a| a.<field>).unwrap_or(global)
unwrap_or(site_alerts, field, global) ==
    IF site_alerts = None THEN global
    ELSE IF unwrap(site_alerts)[field] = None THEN global
    ELSE unwrap(unwrap(site_alerts)[field])

\* variant of enabled_of: the per-site override of enabled is not consulted
enabled_of_global_only(cfg, site_name) == cfg.settings.alerts.enabled

\* evaluate, line 80-83: the effective enabled flag of a configured site
enabled_of(cfg, site_name) ==
    unwrap_or(cfg.sites[site_name].alerts, "enabled", cfg.settings.alerts.enabled)

\* evaluate, line 104-107: the effective consecutive-failure threshold
threshold_of(cfg, site_name) ==
    unwrap_or(cfg.sites[site_name].alerts, "consecutive_failures",
              cfg.settings.alerts.consecutive_failures)

\* evaluate, line 117-120: the effective cooldown
cooldown_of(cfg, site_name) ==
    unwrap_or(cfg.sites[site_name].alerts, "cooldown_seconds",
              cfg.settings.alerts.cooldown_seconds)

\* variant of track_failures: only Down counts as a failure, Warning resets
track_failures_down_only(state, previous_status, current_status) ==
    IF current_status = "Down"
    THEN [state EXCEPT
            !.stable_status = IF state.consecutive_failures = 0
                              THEN previous_status ELSE @,
            !.consecutive_failures = @ + 1]
    ELSE [state EXCEPT
            !.consecutive_failures = 0,
            !.stable_status = Some(current_status)]

\* variant of track_failures: every failing sample overwrites stable_status
track_failures_rebase(state, previous_status, current_status) ==
    IF current_status = "Down" \/ current_status = "Warning"
    THEN [state EXCEPT
            !.stable_status = previous_status,
            !.consecutive_failures = @ + 1]
    ELSE [state EXCEPT
            !.consecutive_failures = 0,
            !.stable_status = Some(current_status)]

\* evaluate, line 90-101: failure tracking
track_failures(state, previous_status, current_status) ==
    IF current_status = "Down" \/ current_status = "Warning"
    THEN [state EXCEPT
            !.stable_status = IF state.consecutive_failures = 0
                              THEN previous_status ELSE @,
            !.consecutive_failures = @ + 1]
    ELSE [state EXCEPT
            !.consecutive_failures = 0,
            !.stable_status = Some(current_status)]

\* variant of below_threshold: off by one, the threshold itself is held back
below_threshold_inclusive(state, current_status, threshold) ==
    /\ (current_status = "Down" \/ current_status = "Warning")
    /\ state.consecutive_failures <= threshold

\* evaluate, line 109-114: the threshold gate
below_threshold(state, current_status, threshold) ==
    /\ (current_status = "Down" \/ current_status = "Warning")
    /\ state.consecutive_failures < threshold

\* variant of in_cooldown: inside the cooldown every status is suppressed,
\* not only the status of the last alert
in_cooldown_any_status(state, current_status, cooldown_seconds, t) ==
    /\ state.last_alert_time # None
    /\ t - unwrap(state.last_alert_time) < cooldown_seconds

\* variant of in_cooldown: the cooldown never runs out
in_cooldown_forever(state, current_status, cooldown_seconds, t) ==
    /\ state.last_alert_time # None
    /\ state.last_alert_status # None
    /\ unwrap(state.last_alert_status) = current_status

\* variant of in_cooldown: suppresses when the status differs from the last
\* alert's instead of when it is the same
in_cooldown_other_status(state, current_status, cooldown_seconds, t) ==
    /\ state.last_alert_time # None
    /\ t - unwrap(state.last_alert_time) < cooldown_seconds
    /\ state.last_alert_status # None
    /\ unwrap(state.last_alert_status) # current_status

\* variant of in_cooldown: the cooldown is taken as milliseconds
in_cooldown_millis(state, current_status, cooldown_seconds, t) ==
    /\ state.last_alert_time # None
    /\ t - unwrap(state.last_alert_time) < cooldown_seconds \div 1000
    /\ state.last_alert_status # None
    /\ unwrap(state.last_alert_status) = current_status

\* evaluate, line 122-132: the cooldown gate, with the clock reading t
in_cooldown(state, current_status, cooldown_seconds, t) ==
    /\ state.last_alert_time # None
    /\ t - unwrap(state.last_alert_time) < cooldown_seconds
    /\ state.last_alert_status # None
    /\ unwrap(state.last_alert_status) = current_status

\* variant of from_status: a failing sample is compared with the status of
\* the last alert, when there is one
from_status_last_alert(state, previous_status, current_status) ==
    IF current_status = "Up" THEN previous_status
    ELSE IF state.last_alert_status # None THEN state.last_alert_status
    ELSE state.stable_status

\* variant of from_status: always the immediate previous status
from_status_previous(state, previous_status, current_status) == previous_status

\* evaluate, line 136-142: the status the transition is computed from
from_status(state, previous_status, current_status) ==
    IF current_status = "Up" THEN previous_status ELSE state.stable_status

\* variant of should_alert: UpToWarn is gated by the flag of UpToDown
should_alert_wrong_flag(transitions, transition) ==
    transitions[IF transition = "UpToWarn" THEN "UpToDown" ELSE transition]

\* evaluate, line 146-153: the enable flag of a transition kind
should_alert(transitions, transition) == transitions[transition]

\* AlertDetector::evaluate for a site the detector has a state for. t is the
\* clock at line 123, t2 the clock at line 156. The result is the new
\* SiteAlertState, the transition returned (None for no alert) and the
\* transition computed at line 144 (None when the call returned before it or
\* none exists).
evaluate_known(cfg, state, site_name, previous_status, current_status, t, t2) ==
    IF ~enabled_of(cfg, site_name)
    THEN [state |-> state, transition |-> None, computed |-> None]
    ELSE
      LET tracked == track_failures(state, previous_status, current_status)
          quiet == [state |-> tracked, transition |-> None, computed |-> None]
      IN
      IF below_threshold(tracked, current_status, threshold_of(cfg, site_name))
      THEN quiet
      ELSE IF in_cooldown(tracked, current_status, cooldown_of(cfg, site_name), t)
      THEN quiet
      ELSE
        LET from == from_status(tracked, previous_status, current_status)
            transition == IF from = None THEN None
                          ELSE from_statuses(unwrap(from), current_status)
        IN
        IF transition = None
        THEN quiet
        ELSE IF should_alert(cfg.settings.alerts.transitions, unwrap(transition))
        THEN [state |-> [tracked EXCEPT !.last_alert_time = Some(t2),
                                        !.last_alert_status = Some(current_status)],
              transition |-> transition, computed |-> transition]
        ELSE [state |-> tracked, transition |-> None, computed |-> transition]

----------------------------------------------------------------------------
(* app.rs: App *)

\* variant of previous_status_of: the oldest stored result, not the latest
previous_status_of_oldest(site_name) ==
    IF site_name \in DOMAIN sites
    THEN IF Len(sites[site_name].results) = 0 THEN None
         ELSE Some(sites[site_name].results[1].status)
    ELSE None

\* variant of previous_status_of: a site without a stored result counts as Up,
\* as it does for Alert::new
previous_status_of_or_up(site_name) ==
    IF site_name \in DOMAIN sites
    THEN IF latest(sites[site_name]) = None THEN Some("Up")
         ELSE Some(unwrap(latest(sites[site_name])).status)
    ELSE None

\* variant of previous_status_of: the history of the site is not looked at
previous_status_of_absent(site_name) == None

\* handle_check_result, line 83-87: the status of the latest stored result
previous_status_of(site_name) ==
    IF site_name \in DOMAIN sites
    THEN IF latest(sites[site_name]) = None THEN None
         ELSE Some(unwrap(latest(sites[site_name])).status)
    ELSE None

\* variant of store_result: one history shared by the sites, the result goes
\* into the history of every site
store_result_everywhere(histories, site_name, result) ==
    [n \in DOMAIN histories |-> add_result(histories[n], result)]

\* variant of store_result: a history is created for a name that has none
store_result_or_insert(histories, site_name, result) ==
    [n \in DOMAIN histories \cup {site_name} |->
        IF n = site_name
        THEN add_result(IF n \in DOMAIN histories THEN histories[n]
                        ELSE SiteHistory_new(config.settings.history_size),
                        result)
        ELSE histories[n]]

\* handle_check_result, line 90-93: the result is stored only in the history
\* of a site App::new created one for
store_result(histories, site_name, result) ==
    IF site_name \in DOMAIN histories
    THEN [histories EXCEPT ![site_name] = add_result(@, result)]
    ELSE histories

\* the clock does not run past the horizon of the model
MaxTime == MaxTicks * TickSeconds

\* number of samples fed so far, over all names
RECURSIVE TotalFed(_, _)
TotalFed(f, names) ==
    IF names = {} THEN 0
    ELSE LET n == CHOOSE n \in names : TRUE
         IN  Len(f[n]) + TotalFed(f, names \ {n})

\* App::handle_check_result(site_name, result); dt is the time that passes
\* between the two clock readings of evaluate
handle_check_result(site_name, result, dt) ==
    /\ TotalFed(fed, AllNames) < MaxSamples
    /\ now + dt <= MaxTime
    /\ LET previous_status == previous_status_of(site_name)
           known == site_name \in DOMAIN site_states
                    /\ site_name \in DOMAIN config.sites
           ev == IF known
                 THEN evaluate_known(config, site_states[site_name], site_name,
                                     previous_status, result.status, now, now + dt)
                 ELSE [state |-> SiteAlertState_new, transition |-> None,
                       computed |-> None]
           alert == IF ev.transition = None THEN None
                    ELSE Some(Alert_new(site_name, unwrap(ev.transition),
                                        IF previous_status = None THEN "Up"
                                        ELSE unwrap(previous_status),
                                        result.status, now + dt))
       IN
       /\ sites' = store_result(sites, site_name, result)
       /\ site_states' = IF known
                         THEN [site_states EXCEPT ![site_name] = ev.state]
                         ELSE site_states
       /\ alert_history' = IF alert = None THEN alert_history
                           ELSE add_alert(alert_history, unwrap(alert))
       /\ now' = IF ev.transition = None THEN now ELSE now + dt
       /\ fed' = [fed EXCEPT ![site_name] =
                    Append(@, [status |-> result.status,
                               transition |-> ev.transition,
                               computed |-> ev.computed,
                               at |-> IF ev.transition = None THEN None
                                      ELSE Some(now + dt)])]
    /\ UNCHANGED config

\* time passes between two results
Tick ==
    /\ now + TickSeconds <= MaxTime
    /\ now' = now + TickSeconds
    /\ UNCHANGED <<config, sites, site_states, alert_history, fed>>

----------------------------------------------------------------------------------------------------------------------------------------
(* Configurations *)

\* [alerts] tables of a site: none, alerts switched off, a threshold of its
\* own, a cooldown of its own
NoOverride == None
SiteAlertChoices ==
    {NoOverride,
     Some([enabled |-> Some(FALSE), consecutive_failures |-> None,
           cooldown_seconds |-> None]),
     Some([enabled |-> Some(TRUE), consecutive_failures |-> Some(1),
           cooldown_seconds |-> None]),
     Some([enabled |-> None, consecutive_failures |-> None,
           cooldown_seconds |-> Some(0)])}

\* configurations: site "a" is given one of siteChoices, site "b" has no
\* [alerts] table
Configs(enabledSet, thresholds, cooldowns, transitionSets, siteChoices) ==
    {[settings |->
        [history_size |-> 2,
         alerts |-> [enabled |-> en, alert_history_size |-> 2,
                     consecutive_failures |-> th, cooldown_seconds |-> cd,
                     transitions |-> tr]],
      sites |-> [n \in SiteNames |-> [alerts |-> IF n = "a" THEN sa ELSE None]]] :
        en \in enabledSet, th \in thresholds, cd \in cooldowns,
        tr \in transitionSets, sa \in siteChoices}

\* no query has been made
NoQueries ==
    /\ log = <<>>
    /\ out = None

\* no checker task is spawned and main is not running
NoTasks ==
    /\ pc = <<>> /\ held = <<>> /\ timer = <<>> /\ refresh = <<>>
    /\ chan = <<>> /\ shutdown = FALSE /\ main_pc = "Off"
    /\ notified = <<>> /\ probes = 0 /\ late = <<>> /\ refreshes = 0
    /\ probed = <<>> /\ finished = {}

\* App::new / AlertDetector::new for a configuration
InitWith(cfgs) ==
    /\ config \in cfgs
    /\ now = 0
    /\ sites = [n \in DOMAIN config.sites |->
                  SiteHistory_new(config.settings.history_size)]
    /\ site_states = [n \in DOMAIN config.sites |-> SiteAlertState_new]
    /\ alert_history = AlertHistory_new(config.settings.alerts.alert_history_size)
    /\ fed = [n \in AllNames |-> <<>>]

\* two sites and an unknown name, the default transition flags, every
\* per-site override
Init ==
    /\ InitWith(Configs({TRUE}, 1..MaxThreshold, {default_cooldown_seconds},
                        {TransitionSettings_default}, SiteAlertChoices))
    /\ NoQueries /\ NoTasks

Next ==
    \/ /\ \E site_name \in AllNames, result \in CheckResults, dt \in {0, TickSeconds} :
             handle_check_result(site_name, result, dt)
       /\ UNCHANGED <<query_vars, sched_vars>>
    \/ Tick /\ UNCHANGED <<query_vars, sched_vars>>

Spec == Init /\ [][Next]_vars

\* one site, every setting of the six transition flags
InitTransitions ==
    /\ InitWith(Configs({TRUE}, 1..MaxThreshold, {default_cooldown_seconds},
                        TransitionSettings, {NoOverride}))
    /\ NoQueries /\ NoTasks

NextTransitions ==
    \/ /\ \E result \in CheckResults, dt \in {0, TickSeconds} :
             handle_check_result("a", result, dt)
       /\ UNCHANGED <<query_vars, sched_vars>>
    \/ Tick /\ UNCHANGED <<query_vars, sched_vars>>

SpecTransitions == InitTransitions /\ [][NextTransitions]_vars

\* every [alerts] table site "a" can be given, each of its three fields
\* present or not, under global settings that differ from the overrides:
\* alerts on or off, the largest threshold, the default cooldown; the
\* transition flags are the default ones or all on
InitPolicy ==
    /\ InitWith(Configs(BOOLEAN, {MaxThreshold}, {default_cooldown_seconds},
                        {TransitionSettings_default,
                         [t \in StatusTransition |-> TRUE]},
                        {NoOverride} \cup {Some(a) : a \in SiteAlertSettings}))
    /\ NoQueries /\ NoTasks

NextPolicy ==
    \/ /\ \E result \in CheckResults, dt \in {0, TickSeconds} :
             handle_check_result("a", result, dt)
       /\ UNCHANGED <<query_vars, sched_vars>>
    \/ Tick /\ UNCHANGED <<query_vars, sched_vars>>

SpecPolicy == InitPolicy /\ [][NextPolicy]_vars

----------------------------------------------------------------------------
(* What the properties observe: the configuration as written, and the trace *)
(* of samples and alerts of each site                                        *)

\* the policy of a configured site, read field by field from the configuration
PolicyField(n, field, global) ==
    LET a == config.sites[n].alerts
    IN  IF a # None /\ unwrap(a)[field] # None
        THEN unwrap(unwrap(a)[field]) ELSE global
PolicyEnabled(n) == PolicyField(n, "enabled", config.settings.alerts.enabled)
PolicyThreshold(n) ==
    PolicyField(n, "consecutive_failures",
                config.settings.alerts.consecutive_failures)
PolicyCooldown(n) ==
    PolicyField(n, "cooldown_seconds", config.settings.alerts.cooldown_seconds)
Flag(t) == config.settings.alerts.transitions[t]

Failing(status) == status \in {"Down", "Warning"}

\* this step is a call of handle_check_result for name n with the given status
Feeds(n, status) ==
    /\ Len(fed'[n]) = Len(fed[n]) + 1
    /\ fed'[n][Len(fed'[n])].status = status
\* the record of that call
Fed(n) == fed'[n][Len(fed'[n])]

\* positions of the accepted alerts in the trace of n
AlertsOf(n) == {i \in 1..Len(fed[n]) : fed[n][i].transition # None}
\* position of the last accepted alert of n, 0 when there is none
LastAlert(n) ==
    IF AlertsOf(n) = {} THEN 0
    ELSE CHOOSE i \in AlertsOf(n) : \A j \in AlertsOf(n) : j <= i
\* no accepted alert of n lies inside its cooldown window at the present time
NoAlertInWindow(n) ==
    \A i \in AlertsOf(n) : now - unwrap(fed[n][i].at) >= PolicyCooldown(n)
\* number of failing samples at the end of the trace f (since the last Up)
RECURSIVE FailingTail(_)
FailingTail(f) ==
    IF Len(f) = 0 \/ ~Failing(f[Len(f)].status) THEN 0
    ELSE 1 + FailingTail(SubSeq(f, 1, Len(f) - 1))

----------------------------------------------------------------------------
(* Threshold: C1, C5 *)

\* C1: for a site with alerts enabled, up_to_down enabled and threshold T >= 1:
\* when the trace ends with Up followed by T-1 Down samples and no accepted
\* alert lies inside the cooldown window, the next Down sample (the T-th)
\* yields the alert UpToDown, and none of the T-1 earlier Down samples yielded
\* an alert.
C1_UpThenDowns(n) ==
    LET T == PolicyThreshold(n)
        L == Len(fed[n])
    IN  /\ T >= 1
        /\ L >= T
        /\ fed[n][L - (T - 1)].status = "Up"
        /\ \A i \in (L - (T - 1) + 1)..L : fed[n][i].status = "Down"
C1_AlertOnThresholdDown ==
    [][\A n \in SiteNames :
         (/\ PolicyEnabled(n)
          /\ Flag("UpToDown")
          /\ C1_UpThenDowns(n)
          /\ NoAlertInWindow(n)
          /\ Feeds(n, "Down"))
         => /\ Fed(n).transition = Some("UpToDown")
            /\ \A i \in (Len(fed[n]) - (PolicyThreshold(n) - 1) + 1)..Len(fed[n]) :
                  fed[n][i].transition = None]_vars

\* witness of C1: with threshold 2, the trace Up, Down, Down with one alert,
\* UpToDown, on the second Down
C1_Witness ==
    \E n \in SiteNames :
        /\ PolicyEnabled(n) /\ PolicyThreshold(n) = 2
        /\ Len(fed[n]) = 3
        /\ fed[n][1].status = "Up"
        /\ fed[n][2].status = "Down" /\ fed[n][2].transition = None
        /\ fed[n][3].status = "Down" /\ fed[n][3].transition = Some("UpToDown")

\* C5 (as claimed): with threshold T >= 2, a failing streak of fewer than T
\* samples between two Up samples yields no alert, neither on its failing
\* samples nor on the Up sample that ends it.
C5_Streak(f, i, j) ==
    /\ i < j - 1
    /\ f[i].status = "Up" /\ f[j].status = "Up"
    /\ \A k \in (i + 1)..(j - 1) : Failing(f[k].status)
C5_BlipIsSilent ==
    \A n \in SiteNames :
        (PolicyEnabled(n) /\ PolicyThreshold(n) >= 2) =>
        \A i, j \in 1..Len(fed[n]) :
            (C5_Streak(fed[n], i, j) /\ j - 1 - i < PolicyThreshold(n))
            => \A k \in (i + 1)..j : fed[n][k].transition = None

----------------------------------------------------------------------------
(* Cooldown: C2, C3, C4 *)

\* an accepted UpToDown alert of n lies at position i, inside the cooldown
\* window at the present time
UpToDownInWindow(n, i) ==
    /\ i \in AlertsOf(n)
    /\ fed[n][i].transition = Some("UpToDown")
    /\ now - unwrap(fed[n][i].at) < PolicyCooldown(n)

\* C2 (as claimed): with cooldown 300, up_to_down and down_to_warn enabled,
\* whatever the other four flags: after an accepted UpToDown alert, a Warning
\* sample of the same site inside the cooldown window yields an alert.
C2_WarningInWindowAlerts ==
    [][\A n \in SiteNames :
         (/\ PolicyEnabled(n)
          /\ PolicyCooldown(n) = 300
          /\ Flag("UpToDown") /\ Flag("DownToWarn")
          /\ \E i \in AlertsOf(n) : UpToDownInWindow(n, i)
          /\ Feeds(n, "Warning"))
         => Fed(n).transition # None]_vars

\* C2 (amended): with cooldown 300, up_to_down and up_to_warn enabled,
\* whatever the other four flags (down_to_warn among them): after an accepted
\* UpToDown alert, a Warning sample of the same site inside the cooldown
\* window, with nothing but Down samples since the alert, yields the alert
\* UpToWarn.
C2_WarningInWindowAlertsUpToWarn ==
    [][\A n \in SiteNames :
         (/\ PolicyEnabled(n)
          /\ PolicyCooldown(n) = 300
          /\ Flag("UpToDown") /\ Flag("UpToWarn")
          /\ \E i \in AlertsOf(n) :
                /\ UpToDownInWindow(n, i)
                /\ \A k \in (i + 1)..Len(fed[n]) : fed[n][k].status = "Down"
          /\ Feeds(n, "Warning"))
         => Fed(n).transition = Some("UpToWarn")]_vars

\* witness of C2: down_to_warn is off, an UpToDown alert is followed inside
\* its window of 300 seconds by a Warning sample that yielded UpToWarn
C2_Witness ==
    \E n \in SiteNames : \E i \in 1..Len(fed[n]) :
        /\ PolicyCooldown(n) = 300 /\ ~Flag("DownToWarn")
        /\ i + 1 <= Len(fed[n])
        /\ fed[n][i].transition = Some("UpToDown")
        /\ fed[n][i + 1].status = "Warning"
        /\ fed[n][i + 1].transition = Some("UpToWarn")
        /\ unwrap(fed[n][i + 1].at) - unwrap(fed[n][i].at) < 300

\* C3 (as claimed): after an alert with resulting status S was accepted for a
\* site, every further sample with status S processed while
\* now - last_alert_time < cooldown yields no alert.
C3_SameStatusSuppressed ==
    [][\A n \in SiteNames : \A S \in Status :
         (/\ \E i \in AlertsOf(n) : fed[n][i].status = S
          /\ now - unwrap(fed[n][LastAlert(n)].at) < PolicyCooldown(n)
          /\ Feeds(n, S))
         => Fed(n).transition = None]_vars

\* C3 (amended): after an alert with resulting status S was accepted for a
\* site and no alert with another status was accepted for it since, every
\* further sample with status S processed while now - last_alert_time <
\* cooldown yields no alert.
C3_SameStatusSuppressedWhileLast ==
    [][\A n \in SiteNames : \A S \in Status :
         (/\ LastAlert(n) # 0
          /\ fed[n][LastAlert(n)].status = S
          /\ now - unwrap(fed[n][LastAlert(n)].at) < PolicyCooldown(n)
          /\ Feeds(n, S))
         => Fed(n).transition = None]_vars

\* witness of C3: threshold 1 and up_to_down enabled, an accepted UpToDown
\* alert is directly followed by a second Down, which yielded no alert
C3_Witness ==
    \E n \in SiteNames : \E i \in 1..Len(fed[n]) :
        /\ PolicyThreshold(n) = 1 /\ PolicyCooldown(n) > 0 /\ Flag("UpToDown")
        /\ i + 1 <= Len(fed[n])
        /\ fed[n][i].transition = Some("UpToDown")
        /\ fed[n][i + 1].status = "Down"
        /\ fed[n][i + 1].transition = None

\* C4 (as claimed): any two accepted alerts of one site with the same
\* resulting status are at least cooldown apart.
C4_SameStatusAlertsApart ==
    \A n \in SiteNames : \A i, j \in AlertsOf(n) :
        (i < j /\ fed[n][i].status = fed[n][j].status)
        => unwrap(fed[n][j].at) - unwrap(fed[n][i].at) >= PolicyCooldown(n)

\* C4 (amended): any two alerts of one site accepted one directly after the
\* other (no alert of the site accepted in between) with the same resulting
\* status are at least cooldown apart.
C4_ConsecutiveSameStatusAlertsApart ==
    \A n \in SiteNames : \A i, j \in AlertsOf(n) :
        (/\ i < j
         /\ \A k \in AlertsOf(n) : ~(i < k /\ k < j)
         /\ fed[n][i].status = fed[n][j].status)
        => unwrap(fed[n][j].at) - unwrap(fed[n][i].at) >= PolicyCooldown(n)

\* witness of C4: two alerts with the same status, accepted one directly after
\* the other, for a site with a cooldown
C4_Witness ==
    \E n \in SiteNames : \E i, j \in AlertsOf(n) :
        /\ PolicyCooldown(n) > 0
        /\ i < j
        /\ \A k \in AlertsOf(n) : ~(i < k /\ k < j)
        /\ fed[n][i].status = fed[n][j].status

----------------------------------------------------------------------------
(* Failure tracking: C6, C7 *)

\* C6: for a configured site whose policy is enabled, after evaluate has
\* processed a sample consecutive_failures is 0 if and only if that sample was
\* Up, and otherwise it is the number of failing samples since the last Up.
C6_FailuresZeroIffUp ==
    \A n \in SiteNames :
        (PolicyEnabled(n) /\ Len(fed[n]) > 0) =>
        /\ site_states[n].consecutive_failures = 0
              <=> fed[n][Len(fed[n])].status = "Up"
        /\ site_states[n].consecutive_failures = FailingTail(fed[n])

\* witness of C6: an enabled site that was Up and has two failing samples since
C6_Witness ==
    \E n \in SiteNames :
        /\ PolicyEnabled(n)
        /\ site_states[n].consecutive_failures = 2
        /\ \E i \in 1..Len(fed[n]) : fed[n][i].status = "Up"

\* C7: for a site with enabled policy, throughout an unbroken failing streak
\* stable_status is the status of the sample just before the streak's first
\* failing sample (none when the streak starts with the site's first sample),
\* and a later failing sample of the streak does not change it.
C7_StableIsBaseline ==
    \A n \in SiteNames :
        (PolicyEnabled(n) /\ FailingTail(fed[n]) > 0) =>
        LET first == Len(fed[n]) - FailingTail(fed[n]) + 1
        IN  site_states[n].stable_status =
                IF first = 1 THEN None ELSE Some(fed[n][first - 1].status)
C7_StableHeldInStreak ==
    \A n \in SiteNames : \A S \in {"Down", "Warning"} :
        (PolicyEnabled(n) /\ FailingTail(fed[n]) > 0 /\ Feeds(n, S))
        => site_states'[n].stable_status = site_states[n].stable_status
C7_StableStatusOfStreak ==
    []C7_StableIsBaseline /\ [][C7_StableHeldInStreak]_vars

\* witness of C7: a streak Down, Warning that began from Up, stable_status Up
C7_Witness ==
    \E n \in SiteNames :
        /\ PolicyEnabled(n)
        /\ Len(fed[n]) >= 3
        /\ fed[n][Len(fed[n]) - 2].status = "Up"
        /\ fed[n][Len(fed[n]) - 1].status = "Down"
        /\ fed[n][Len(fed[n])].status = "Warning"
        /\ site_states[n].stable_status = Some("Up")

----------------------------------------------------------------------------
(* Silent no-ops: C8, C9 *)

\* C8: when the effective policy of a site has enabled = false, evaluate
\* returns no alert for every sample and leaves the site's AlertState
\* unchanged.
C8_DisabledIsNoOp ==
    [][\A n \in SiteNames : \A S \in Status :
         (~PolicyEnabled(n) /\ Feeds(n, S))
         => /\ Fed(n).transition = None
            /\ site_states'[n] = site_states[n]]_vars

\* witness of C8: alerts are enabled globally and switched off for one site,
\* which was fed Up and then a failing sample
C8_Witness ==
    \E n \in SiteNames :
        /\ config.settings.alerts.enabled /\ ~PolicyEnabled(n)
        /\ Len(fed[n]) >= 2
        /\ fed[n][1].status = "Up"
        /\ Failing(fed[n][2].status)

\* C9: a sample whose name is not in the configuration is a silent no-op:
\* handle_check_result returns no alert and leaves every SiteHistory, every
\* AlertState and the AlertHistory unchanged.
C9_UnknownNameIsNoOp ==
    [][\A n \in AllNames \ DOMAIN config.sites : \A S \in Status :
         Feeds(n, S)
         => /\ Fed(n).transition = None
            /\ sites' = sites
            /\ site_states' = site_states
            /\ alert_history' = alert_history]_vars

\* witness of C9: a sample of an unknown name was processed after samples of
\* a configured site
C9_Witness ==
    \E n \in AllNames \ DOMAIN config.sites :
        /\ Len(fed[n]) > 0
        /\ \E m \in SiteNames : Len(sites[m].results) > 0

----------------------------------------------------------------------------
(* Transition flags: C10 *)

\* C10: an alert of a transition kind is emitted only if the flag of exactly
\* that kind is true; a computed transition whose flag is false yields no
\* alert and leaves last_alert_time and last_alert_status as they were.
C10_AlertOnlyIfFlag ==
    [][\A n \in SiteNames : \A S \in Status :
         Feeds(n, S)
         => /\ Fed(n).transition # None => Flag(unwrap(Fed(n).transition))
            /\ (Fed(n).computed # None /\ ~Flag(unwrap(Fed(n).computed)))
               => /\ Fed(n).transition = None
                  /\ site_states'[n].last_alert_time =
                        site_states[n].last_alert_time
                  /\ site_states'[n].last_alert_status =
                        site_states[n].last_alert_status]_vars

\* witness of C10: one sample yielded an alert, a later one computed a
\* transition whose flag is off and yielded none
C10_Witness ==
    \E n \in SiteNames : \E i, j \in 1..Len(fed[n]) :
        /\ i < j
        /\ fed[n][i].transition # None
        /\ fed[n][j].computed # None
        /\ fed[n][j].transition = None

----------------------------------------------------------------------------
(* The history store of one site on its own: SiteHistory and its queries *)

\* number of elements appended to a store in one behaviour
MaxAppends == 4
\* largest capacity (history_size, alert_history_size) a configuration is given
MaxCapacity == 4
\* largest limit handed to recent_response_times
MaxLimit == 2

\* response times of the successful probes, in milliseconds
Latencies == {10, 20}

\* checker/types.rs: the timestamp new_down and new_success give a result
stamped(result, timestamp) ==
    [timestamp |-> timestamp, status |-> result.status,
     response_time_ms |-> result.response_time_ms]

\* the results appended to the store under study
StoredResults ==
    {new_down} \cup {new_success(ms, warn) : ms \in Latencies, warn \in BOOLEAN}

\* a non-negative f64 that is a quotient of two integers, in lowest terms
RECURSIVE gcd(_, _)
gcd(x, y) == IF y = 0 THEN x ELSE gcd(y, x % y)
quotient(x, y) == [num |-> x \div gcd(x, y), den |-> y \div gcd(x, y)]

\* SiteHistory::uptime_percentage, counting every status but Down as up
uptime_percentage_not_down(h) ==
    IF Len(h.results) = 0 THEN quotient(0, 1)
    ELSE quotient(100 * Len(SelectSeq(h.results, LAMBDA r : r.status # "Down")),
                  Len(h.results))

\* SiteHistory::uptime_percentage
uptime_percentage(h) ==
    IF Len(h.results) = 0 THEN quotient(0, 1)
    ELSE quotient(100 * Len(SelectSeq(h.results, LAMBDA r : r.status = "Up")),
                  Len(h.results))

\* Iterator::rev().take(limit) ... rev(): the last limit elements, in order
rev_take_rev(seq, limit) ==
    IF limit >= Len(seq) THEN seq
    ELSE SubSeq(seq, Len(seq) - limit + 1, Len(seq))

\* Iterator::filter_map(|r| r.response_time_ms)
RECURSIVE filter_map_response_time_ms(_)
filter_map_response_time_ms(seq) ==
    IF seq = <<>> THEN <<>>
    ELSE IF Head(seq).response_time_ms = None
         THEN filter_map_response_time_ms(Tail(seq))
         ELSE <<unwrap(Head(seq).response_time_ms)>>
              \o filter_map_response_time_ms(Tail(seq))

\* SiteHistory::recent_response_times: the last limit samples are taken first,
\* the samples without a response time are dropped from them afterwards
recent_response_times(h, limit) ==
    filter_map_response_time_ms(rev_take_rev(h.results, limit))

\* the store under study is that of site "a"
history == sites["a"]

\* SiteHistory::add_result on the store under study
AddResult(result) ==
    /\ Len(log) < MaxAppends
    /\ LET r == stamped(result, Len(log) + 1)
       IN  /\ sites' = [sites EXCEPT !["a"] = add_result(@, r)]
           /\ log' = Append(log, r)
    /\ out' = None
    /\ UNCHANGED <<config, now, site_states, alert_history, fed, sched_vars>>

\* SiteHistory::uptime_percentage on the store under study
QueryUptime ==
    /\ out' = Some([query |-> "uptime_percentage", arg |-> None,
                    value |-> uptime_percentage(history)])
    /\ UNCHANGED <<config, now, sites, site_states, alert_history, fed, log,
                   sched_vars>>

\* SiteHistory::recent_response_times on the store under study
QueryRecent(limit) ==
    /\ out' = Some([query |-> "recent_response_times", arg |-> Some(limit),
                    value |-> recent_response_times(history, limit)])
    /\ UNCHANGED <<config, now, sites, site_states, alert_history, fed, log,
                   sched_vars>>

\* a configuration whose stores have the given capacities
WithCapacities(history_size, alert_history_size) ==
    {[c EXCEPT !.settings.history_size = history_size,
               !.settings.alerts.alert_history_size = alert_history_size] :
        c \in Configs({TRUE}, {1}, {default_cooldown_seconds},
                      {TransitionSettings_default}, {NoOverride})}

\* every history_size from 0 on: config.rs puts no lower bound on it
InitHistory ==
    /\ InitWith(UNION {WithCapacities(m, 2) : m \in 0..MaxCapacity})
    /\ NoQueries /\ NoTasks

NextHistory ==
    \/ \E result \in StoredResults : AddResult(result)
    \/ QueryUptime
    \/ \E limit \in 0..MaxLimit : QueryRecent(limit)

SpecHistory == InitHistory /\ [][NextHistory]_vars

----------------------------------------------------------------------------
(* The history store: C12, C13, C16, C17 *)

\* the last k elements of a sequence, in order
LastOf(seq, k) == SubSeq(seq, Len(seq) - k + 1, Len(seq))
Min(x, y) == IF x <= y THEN x ELSE y

\* C12: a history store of capacity history_size never holds more than
\* history_size samples, whatever the appends.
C12_LengthAtMostHistorySize ==
    Len(history.results) <= config.settings.history_size

\* C13, the state after n >= 1 appends into a store of capacity m >= 1: the
\* store holds the last min(n, m) appended samples in arrival order and
\* latest() is the n-th appended sample
C13_HoldsLastSamples ==
    LET m == config.settings.history_size
        n == Len(log)
    IN  (m >= 1 /\ n >= 1)
        => /\ history.results = LastOf(log, Min(n, m))
           /\ latest(history) = Some(log[n])

\* C13, one append into a store of capacity m >= 1: the sample is put last and
\* nothing is evicted, or the oldest sample alone is
C13_EvictsOldestOnly ==
    (config.settings.history_size >= 1 /\ Len(log') = Len(log) + 1)
    => LET r == log'[Len(log')]
       IN  \/ history'.results = Append(history.results, r)
           \/ /\ Len(history.results) > 0
              /\ history'.results = Append(Tail(history.results), r)

\* C13: for a capacity m >= 1 and n >= 1 appended samples the store holds
\* exactly the last min(n, m) of them in arrival order, latest() returns the
\* n-th, and each append evicts at most one sample, the oldest.
C13_LastSamplesInArrivalOrder ==
    []C13_HoldsLastSamples /\ [][C13_EvictsOldestOnly]_vars

\* witness of C13: four samples went into a store of capacity 3, which holds
\* the last three
C13_Witness ==
    /\ config.settings.history_size = 3
    /\ Len(log) = 4
    /\ history.results = <<log[2], log[3], log[4]>>

\* C16: uptime_percentage is 0 for an empty store and otherwise
\* 100 * (stored samples with status Up) / (stored samples); Warning and
\* Down samples both count as not up.
C16_UptimeIsShareOfUp ==
    (out # None /\ unwrap(out).query = "uptime_percentage")
    => LET total == Len(history.results)
           up == Cardinality({i \in 1..total : history.results[i].status = "Up"})
           v == unwrap(out).value
       IN  /\ v.den > 0
           /\ IF total = 0 THEN v.num = 0
              ELSE v.num * total = 100 * up * v.den

\* witness of C16: the store holds Up, Up, Down, Up and the answer is 75
C16_Witness ==
    /\ out # None
    /\ unwrap(out).query = "uptime_percentage"
    /\ Len(history.results) = 4
    /\ [i \in 1..4 |-> history.results[i].status] = <<"Up", "Up", "Down", "Up">>
    /\ unwrap(out).value = [num |-> 75, den |-> 1]

\* the response times of the stored samples that have one, oldest first
StoredLatencies ==
    LET with == SelectSeq(history.results, LAMBDA r : r.response_time_ms # None)
    IN  [i \in 1..Len(with) |-> unwrap(with[i].response_time_ms)]

\* C17: recent_response_times(k) skips the samples without a latency; when at
\* least k stored samples have a latency it returns exactly k values, the
\* latencies of the k most recent samples that have one, oldest first.
C17_RecentAreLastKLatencies ==
    (out # None /\ unwrap(out).query = "recent_response_times")
    => LET k == unwrap(unwrap(out).arg)
       IN  Len(StoredLatencies) >= k
           => unwrap(out).value = LastOf(StoredLatencies, k)

----------------------------------------------------------------------------
(* The alert history on its own: AlertHistory and its queries *)

\* alerts/history.rs: enum AlertSeverity
AlertSeverity == {"Critical", "Warning", "Recovery"}

\* the status changes of the alerts appended to the history under study: one
\* of each severity
AlertedChanges == {<<"Up", "Down">>, <<"Up", "Warning">>, <<"Down", "Up">>}

\* the alerts appended to the history under study at a given time
StoredAlerts(timestamp) ==
    {Alert_new(n, unwrap(from_statuses(ch[1], ch[2])), ch[1], ch[2], timestamp) :
        n \in SiteNames, ch \in AlertedChanges}

\* Iterator::rev
rev(seq) == [i \in 1..Len(seq) |-> seq[Len(seq) + 1 - i]]

\* AlertHistory::by_severity, walking the queue from the newest alert
by_severity_newest_first(ah, severity) ==
    rev(SelectSeq(ah.alerts, LAMBDA a : a.severity = severity))

\* AlertHistory::by_severity
by_severity(ah, severity) ==
    SelectSeq(ah.alerts, LAMBDA a : a.severity = severity)

\* AlertHistory::by_site
by_site(ah, site_name) ==
    SelectSeq(ah.alerts, LAMBDA a : a.site_name = site_name)

\* AlertHistory::add_alert on the history under study
AddAlert(alert) ==
    /\ Len(log) < MaxAppends
    /\ alert_history' = add_alert(alert_history, alert)
    /\ log' = Append(log, alert)
    /\ out' = None
    /\ UNCHANGED <<config, now, sites, site_states, fed, sched_vars>>

\* AlertHistory::by_severity on the history under study
QueryBySeverity(severity) ==
    /\ out' = Some([query |-> "by_severity", arg |-> Some(severity),
                    value |-> by_severity(alert_history, severity)])
    /\ UNCHANGED <<config, now, sites, site_states, alert_history, fed, log,
                   sched_vars>>

\* AlertHistory::by_site on the history under study
QueryBySite(site_name) ==
    /\ out' = Some([query |-> "by_site", arg |-> Some(site_name),
                    value |-> by_site(alert_history, site_name)])
    /\ UNCHANGED <<config, now, sites, site_states, alert_history, fed, log,
                   sched_vars>>

\* every alert_history_size from 0 on: config.rs puts no lower bound on it
InitAlertHistory ==
    /\ InitWith(UNION {WithCapacities(2, m) : m \in 0..MaxCapacity})
    /\ NoQueries /\ NoTasks

NextAlertHistory ==
    \/ \E alert \in StoredAlerts(Len(log) + 1) : AddAlert(alert)
    \/ \E severity \in AlertSeverity : QueryBySeverity(severity)
    \/ \E site_name \in AllNames : QueryBySite(site_name)

SpecAlertHistory == InitAlertHistory /\ [][NextAlertHistory]_vars

----------------------------------------------------------------------------
(* The alert history: C14, C15 *)

\* C14: after any sequence of add_alert calls on an AlertHistory of capacity
\* m, for every m >= 0, it holds at most m alerts, the last min(n, m) of the
\* n accepted alerts in acceptance order.
C14_LastAlertsWithinCapacity ==
    LET m == config.settings.alerts.alert_history_size
    IN  /\ Len(alert_history.alerts) <= m
        /\ alert_history.alerts = LastOf(log, Min(Len(log), m))

\* the stored alerts that satisfy a test
Matching(Test(_)) ==
    {i \in 1..Len(alert_history.alerts) : Test(alert_history.alerts[i])}

\* answer holds the stored alerts that satisfy the test, each once, oldest
\* first (the stored alerts carry increasing timestamps)
IsSelection(answer, Test(_)) ==
    /\ \A i \in 1..Len(answer) :
          \E j \in Matching(Test) : answer[i] = alert_history.alerts[j]
    /\ Len(answer) = Cardinality(Matching(Test))
    /\ \A i, j \in 1..Len(answer) :
          i < j => answer[i].timestamp < answer[j].timestamp

\* C15, the answers
C15_AnswerIsSelection ==
    out # None
    => LET q == unwrap(out)
       IN  /\ q.query = "by_severity"
              => IsSelection(q.value, LAMBDA a : a.severity = unwrap(q.arg))
           /\ q.query = "by_site"
              => IsSelection(q.value, LAMBDA a : a.site_name = unwrap(q.arg))

\* C15, the store
C15_QueryLeavesHistory ==
    (out' # None /\ out' # out) => alert_history' = alert_history

\* C15: by_severity(s) returns exactly the stored alerts of severity s and
\* by_site(n) exactly the stored alerts of site n, in insertion order, and
\* neither changes the AlertHistory.
C15_QueriesSelectInOrder ==
    []C15_AnswerIsSelection /\ [][C15_QueryLeavesHistory]_vars

\* witness of C15: the history holds a Critical, a Warning and a Critical
\* alert, and by_severity(Critical) answered the first and the third
C15_Witness ==
    /\ out # None
    /\ unwrap(out).query = "by_severity"
    /\ unwrap(out).arg = Some("Critical")
    /\ Len(alert_history.alerts) = 3
    /\ [i \in 1..3 |-> alert_history.alerts[i].severity] =
          <<"Critical", "Warning", "Critical">>
    /\ unwrap(out).value = <<alert_history.alerts[1], alert_history.alerts[3]>>

----------------------------------------------------------------------------
(* checker/mod.rs and main.rs: the checker tasks, the channels, the main loop *)

\* number of probes the checker tasks complete in one behaviour
MaxProbes == 2
\* number of force_refresh signals sent in one behaviour
MaxRefreshes == 1
\* capacity of the result channel: mpsc::channel(100), scaled down
ChannelCapacity == 2

\* main.rs: broadcast::channel(16), the signals one receiver can have pending
force_refresh_capacity == 16

\* the results the probes of the checker tasks yield
ProbeResults == {new_down, new_success(1, FALSE)}

\* variant of interval_of: the longer of the site's interval and the default
interval_of_max(cfg, site_name) ==
    IF cfg.sites[site_name].check_interval = None
    THEN cfg.settings.refresh_interval
    ELSE IF unwrap(cfg.sites[site_name].check_interval)
              > cfg.settings.refresh_interval
         THEN unwrap(cfg.sites[site_name].check_interval)
         ELSE cfg.settings.refresh_interval

\* spawn_checker_task: the sleep of a site's task
interval_of(cfg, site_name) ==
    IF cfg.sites[site_name].check_interval = None
    THEN cfg.settings.refresh_interval
    ELSE unwrap(cfg.sites[site_name].check_interval)

\* the loop of a checker task goes back to checker.check
continue(site_name) ==
    /\ pc' = [pc EXCEPT ![site_name] = "Checking"]
    /\ late' = [late EXCEPT ![site_name] = IF shutdown THEN @ + 1 ELSE @]

\* checker.check(&site).await completes with a result
Probe(site_name, result) ==
    /\ pc[site_name] = "Checking"
    /\ probes < MaxProbes
    /\ pc' = [pc EXCEPT ![site_name] = "Publishing"]
    /\ held' = [held EXCEPT ![site_name] = Some(result)]
    /\ probes' = probes + 1
    /\ UNCHANGED <<config, now, sites, site_states, alert_history, fed,
                   query_vars, timer, refresh, chan, shutdown, main_pc,
                   notified, late, refreshes>>
    /\ probed' = [probed EXCEPT ![site_name] = Append(@, result)]
    /\ UNCHANGED finished

\* tx.send((name, result)).await completes once the channel has room; the
\* task enters select! with a fresh sleep(interval)
Publish(site_name) ==
    /\ pc[site_name] = "Publishing"
    /\ Len(chan) < ChannelCapacity
    /\ chan' = Append(chan, <<site_name, unwrap(held[site_name])>>)
    /\ held' = [held EXCEPT ![site_name] = None]
    /\ pc' = [pc EXCEPT ![site_name] = "Waiting"]
    /\ timer' = [timer EXCEPT ![site_name] = interval_of(config, site_name)]
    /\ UNCHANGED <<config, now, sites, site_states, alert_history, fed,
                   query_vars, refresh, shutdown, main_pc, notified, probes,
                   late, refreshes>>
    /\ UNCHANGED <<probed, finished>>

\* select!: the sleep branch is ready
SleepElapsed(site_name) ==
    /\ pc[site_name] = "Waiting"
    /\ timer[site_name] = 0
    /\ continue(site_name)
    /\ UNCHANGED <<config, now, sites, site_states, alert_history, fed,
                   query_vars, held, timer, refresh, chan, shutdown, main_pc,
                   notified, probes, refreshes>>
    /\ UNCHANGED <<probed, finished>>

\* select!: force_refresh.recv() is ready, one pending signal is taken
ForceRefreshReceived(site_name) ==
    /\ pc[site_name] = "Waiting"
    /\ refresh[site_name] > 0
    /\ refresh' = [refresh EXCEPT ![site_name] = @ - 1]
    /\ continue(site_name)
    /\ UNCHANGED <<config, now, sites, site_states, alert_history, fed,
                   query_vars, held, timer, chan, shutdown, main_pc,
                   notified, probes, refreshes>>
    /\ UNCHANGED <<probed, finished>>

\* variant of ShutdownObserved: the shutdown is looked at everywhere in the
\* loop, not only in select!
ShutdownObservedAnywhere(site_name) ==
    /\ pc[site_name] # "Terminated"
    /\ shutdown
    /\ pc' = [pc EXCEPT ![site_name] = "Terminated"]
    /\ refresh' = [refresh EXCEPT ![site_name] = 0]
    /\ UNCHANGED <<config, now, sites, site_states, alert_history, fed,
                   query_vars, held, timer, chan, shutdown, main_pc,
                   notified, probes, late, refreshes>>
    /\ UNCHANGED <<probed, finished>>

\* select!: shutdown.changed() is ready, the task breaks out of its loop and
\* drops its receivers
ShutdownObserved(site_name) ==
    /\ pc[site_name] = "Waiting"
    /\ shutdown
    /\ pc' = [pc EXCEPT ![site_name] = "Terminated"]
    /\ refresh' = [refresh EXCEPT ![site_name] = 0]
    /\ UNCHANGED <<config, now, sites, site_states, alert_history, fed,
                   query_vars, held, timer, chan, shutdown, main_pc,
                   notified, probes, late, refreshes>>
    /\ UNCHANGED <<probed, finished>>

\* a queue shared by the receivers in the place of the broadcast channel: one
\* receiver that is alive gets the signal
force_refresh_send_one(receivers) ==
    LET alive == {n \in DOMAIN receivers : pc[n] # "Terminated"}
    IN  [n \in DOMAIN receivers |->
            IF alive # {} /\ n = (CHOOSE m \in alive : TRUE)
               /\ receivers[n] < force_refresh_capacity
            THEN receivers[n] + 1 ELSE receivers[n]]

\* broadcast::Sender::send: every receiver that is alive gets the signal
\* queued, up to the capacity of the channel
force_refresh_send(receivers) ==
    [n \in DOMAIN receivers |->
        IF pc[n] # "Terminated" /\ receivers[n] < force_refresh_capacity
        THEN receivers[n] + 1 ELSE receivers[n]]

\* main loop, key 'r': App::handle_key_event sends on force_refresh_tx
KeyRefresh ==
    /\ main_pc = "Loop"
    /\ refreshes < MaxRefreshes
    /\ refresh' = force_refresh_send(refresh)
    /\ refreshes' = refreshes + 1
    /\ UNCHANGED <<config, now, sites, site_states, alert_history, fed,
                   query_vars, pc, held, timer, chan, shutdown, main_pc,
                   notified, probes, late>>
    /\ UNCHANGED <<probed, finished>>

\* main loop, key 'q': AppAction::Quit breaks the loop, shutdown_tx.send(true)
KeyQuit ==
    /\ main_pc = "Loop"
    /\ shutdown' = TRUE
    /\ main_pc' = "Joining"
    /\ UNCHANGED <<config, now, sites, site_states, alert_history, fed,
                   query_vars, pc, held, timer, refresh, chan, notified,
                   probes, late, refreshes>>
    /\ UNCHANGED <<probed, finished>>

\* variant of Consume: the newest result of the channel is taken
ConsumeNewest ==
    /\ main_pc \in {"Loop", "Draining"}
    /\ chan # <<>>
    /\ LET site_name == chan[Len(chan)][1]
       IN  /\ handle_check_result(site_name, chan[Len(chan)][2], 0)
           /\ notified' =
                 IF fed'[site_name][Len(fed'[site_name])].transition = None
                 THEN notified
                 ELSE Append(notified,
                             alert_history'.alerts[Len(alert_history'.alerts)])
    /\ chan' = SubSeq(chan, 1, Len(chan) - 1)
    /\ main_pc' = "Draining"
    /\ UNCHANGED <<query_vars, pc, held, timer, refresh, shutdown, probes,
                   late, refreshes>>
    /\ UNCHANGED <<probed, finished>>

\* variant of Consume: notify is awaited, no result is taken while a notify
\* call has not returned
ConsumeAwaitingNotify ==
    /\ main_pc \in {"Loop", "Draining"}
    /\ chan # <<>>
    /\ finished = 1..Len(notified)
    /\ LET site_name == Head(chan)[1]
       IN  /\ handle_check_result(site_name, Head(chan)[2], 0)
           /\ notified' =
                 IF fed'[site_name][Len(fed'[site_name])].transition = None
                 THEN notified
                 ELSE Append(notified,
                             alert_history'.alerts[Len(alert_history'.alerts)])
    /\ chan' = Tail(chan)
    /\ main_pc' = "Draining"
    /\ UNCHANGED <<query_vars, pc, held, timer, refresh, shutdown, probes,
                   late, refreshes>>
    /\ UNCHANGED <<probed, finished>>

\* main loop, while let Ok(..) = rx.try_recv(): one result is taken from the
\* channel and handled, and notify is spawned for the alert it returns
Consume ==
    /\ main_pc \in {"Loop", "Draining"}
    /\ chan # <<>>
    /\ LET site_name == Head(chan)[1]
       IN  /\ handle_check_result(site_name, Head(chan)[2], 0)
           /\ notified' =
                 IF fed'[site_name][Len(fed'[site_name])].transition = None
                 THEN notified
                 ELSE Append(notified,
                             alert_history'.alerts[Len(alert_history'.alerts)])
    /\ chan' = Tail(chan)
    /\ main_pc' = "Draining"
    /\ UNCHANGED <<query_vars, pc, held, timer, refresh, shutdown, probes,
                   late, refreshes>>
    /\ UNCHANGED <<probed, finished>>

\* variant of DrainEnd: `if let` in the place of `while let`, the loop goes
\* round after one result
DrainEndAfterOne ==
    /\ main_pc = "Draining"
    /\ main_pc' = "Loop"
    /\ UNCHANGED <<config, now, sites, site_states, alert_history, fed,
                   query_vars, pc, held, timer, refresh, chan, shutdown,
                   notified, probes, late, refreshes>>
    /\ UNCHANGED <<probed, finished>>

\* main loop: rx.try_recv() finds the channel empty, the loop goes round
DrainEnd ==
    /\ main_pc = "Draining"
    /\ chan = <<>>
    /\ main_pc' = "Loop"
    /\ UNCHANGED <<config, now, sites, site_states, alert_history, fed,
                   query_vars, pc, held, timer, refresh, chan, shutdown,
                   notified, probes, late, refreshes>>
    /\ UNCHANGED <<probed, finished>>

\* variant of Join: main returns without awaiting the tasks
JoinWithoutAwait ==
    /\ main_pc = "Joining"
    /\ main_pc' = "Done"
    /\ UNCHANGED <<config, now, sites, site_states, alert_history, fed,
                   query_vars, pc, held, timer, refresh, chan, shutdown,
                   notified, probes, late, refreshes>>
    /\ UNCHANGED <<probed, finished>>

\* main: every task.await has returned, main returns Ok(())
Join ==
    /\ main_pc = "Joining"
    /\ \A n \in DOMAIN pc : pc[n] = "Terminated"
    /\ main_pc' = "Done"
    /\ UNCHANGED <<config, now, sites, site_states, alert_history, fed,
                   query_vars, pc, held, timer, refresh, chan, shutdown,
                   notified, probes, late, refreshes>>
    /\ UNCHANGED <<probed, finished>>

\* time passes: the clock advances and the sleeps of the waiting tasks run down
Elapse ==
    /\ Tick
    /\ timer' = [n \in DOMAIN timer |->
                    IF pc[n] = "Waiting" /\ timer[n] > TickSeconds
                    THEN timer[n] - TickSeconds
                    ELSE IF pc[n] = "Waiting" THEN 0 ELSE timer[n]]
    /\ UNCHANGED <<query_vars, pc, held, refresh, chan, shutdown, main_pc,
                   notified, probes, late, refreshes>>
    /\ UNCHANGED <<probed, finished>>

\* the spawned task of an alert: notifier.notify returns, the notification
\* shown or its failure logged; the task owns clones of the notifier and of
\* the alert only
NotifyReturns(i) ==
    /\ i \in 1..Len(notified)
    /\ i \notin finished
    /\ finished' = finished \cup {i}
    /\ UNCHANGED <<config, now, sites, site_states, alert_history, fed,
                   query_vars, pc, held, timer, refresh, chan, shutdown,
                   main_pc, notified, probes, late, refreshes, probed>>

\* configurations with their intervals: site "a" has a check_interval of its
\* own, site "b" sleeps settings.refresh_interval
SchedulerConfigs ==
    {[settings |-> [refresh_interval |-> 2 * TickSeconds,
                    history_size |-> c.settings.history_size,
                    alerts |-> c.settings.alerts],
      sites |-> [n \in SiteNames |->
                   [alerts |-> c.sites[n].alerts,
                    check_interval |-> IF n = "a" THEN Some(TickSeconds)
                                       ELSE None]]] :
        c \in Configs({TRUE}, {1}, {default_cooldown_seconds},
                      {TransitionSettings_default}, {NoOverride})}

\* main.rs up to the main loop: the channels are made, one task per site is
\* spawned and starts with a probe
InitScheduler ==
    /\ InitWith(SchedulerConfigs)
    /\ NoQueries
    /\ pc = [n \in SiteNames |-> "Checking"]
    /\ held = [n \in SiteNames |-> None]
    /\ timer = [n \in SiteNames |-> 0]
    /\ refresh = [n \in SiteNames |-> 0]
    /\ chan = <<>>
    /\ shutdown = FALSE
    /\ main_pc = "Loop"
    /\ notified = <<>>
    /\ probes = 0
    /\ late = [n \in SiteNames |-> 0]
    /\ refreshes = 0
    /\ probed = [n \in SiteNames |-> <<>>]
    /\ finished = {}

NextScheduler ==
    \/ \E site_name \in SiteNames, result \in ProbeResults :
          Probe(site_name, result)
    \/ \E site_name \in SiteNames : Publish(site_name)
    \/ \E site_name \in SiteNames : SleepElapsed(site_name)
    \/ \E site_name \in SiteNames : ForceRefreshReceived(site_name)
    \/ \E site_name \in SiteNames : ShutdownObserved(site_name)
    \/ KeyRefresh
    \/ KeyQuit
    \/ Consume
    \/ DrainEnd
    \/ Join
    \/ Elapse
    \/ \E i \in 1..MaxProbes : NotifyReturns(i)

SpecScheduler == InitScheduler /\ [][NextScheduler]_vars

----------------------------------------------------------------------------
(* The main loop consuming results: C11 *)

\* this step takes the result r of site n from the channel
Consumes(n, r) ==
    /\ chan # <<>>
    /\ Head(chan) = <<n, r>>
    /\ chan' = Tail(chan)

\* the status of the latest sample a site's store holds
LatestStatus(n) ==
    IF Len(sites[n].results) = 0 THEN None
    ELSE Some(sites[n].results[Len(sites[n].results)].status)

\* queue' is queue with x put last, after at most the oldest element went
PutLast(queue, x, after) ==
    \/ after = Append(queue, x)
    \/ Len(queue) > 0 /\ after = Append(Tail(queue), x)

\* C11: for each result the main loop consumes for a configured site, exactly
\* one sample is appended to that site's history; the previous status the
\* detector is given is the latest stored status before that append; and the
\* alert history gets exactly one alert, the one handed to notify, if
\* evaluate returned a transition, and is unchanged otherwise.
C11_ConsumeAppendsEvaluatesNotifies ==
    [][\A n \in SiteNames : \A r \in ProbeResults :
         Consumes(n, r)
         => /\ PutLast(sites[n].results, r, sites'[n].results)
            /\ Feeds(n, r.status)
            /\ (PolicyEnabled(n) /\ Failing(r.status)
                /\ site_states[n].consecutive_failures = 0)
               => site_states'[n].stable_status = LatestStatus(n)
            /\ IF Fed(n).transition = None
               THEN /\ alert_history' = alert_history
                    /\ notified' = notified
               ELSE /\ Len(notified') = Len(notified) + 1
                    /\ LET alert == notified'[Len(notified')]
                       IN  /\ notified' = Append(notified, alert)
                           /\ PutLast(alert_history.alerts, alert,
                                      alert_history'.alerts)
                           /\ alert.site_name = n
                           /\ alert.transition = unwrap(Fed(n).transition)
                           /\ alert.current_status = r.status
                           /\ alert.previous_status =
                                 IF LatestStatus(n) = None THEN "Up"
                                 ELSE unwrap(LatestStatus(n))]_vars

\* witness of C11: the main loop consumed two results of one site, the second
\* one yielded the alert that is both in the alert history and handed to notify
C11_Witness ==
    \E n \in SiteNames :
        /\ Len(fed[n]) = 2
        /\ fed[n][1].transition = None
        /\ fed[n][2].transition # None
        /\ Len(sites[n].results) = 2
        /\ Len(notified) = 1
        /\ alert_history.alerts = notified
        /\ notified[1].site_name = n

----------------------------------------------------------------------------
(* Force refresh and shutdown in the checker tasks: C18, C19, C20 *)

\* C18, the signal: a force_refresh signal that is sent reaches every task
\* that is waiting
C18_SignalReachesEveryWaiter ==
    refreshes' = refreshes + 1
    => \A n \in SiteNames :
          pc[n] = "Waiting" => refresh'[n] = refresh[n] + 1

\* C18, the wake-up: a waiting task with a signal pending can begin its next
\* probe at once, whatever is left of its sleep
C18_WaiterCanProbeAtOnce ==
    \A n \in SiteNames :
        (pc[n] = "Waiting" /\ refresh[n] > 0)
        => ENABLED (NextScheduler /\ pc'[n] = "Checking" /\ timer'[n] = timer[n])

\* C18, the step: unless shutdown has been sent as well, the next step of a
\* waiting task with a signal pending is into Checking, and it takes no
\* signal from another task
C18_WaiterProbesNext ==
    \A n \in SiteNames :
        (pc[n] = "Waiting" /\ refresh[n] > 0 /\ ~shutdown /\ pc'[n] # pc[n])
        => /\ pc'[n] = "Checking"
           /\ \A m \in SiteNames \ {n} : refresh'[m] = refresh[m]

\* C18: a task that is in Waiting when a force-refresh signal is raised
\* abandons the rest of its sleep and begins its next probe at once; one
\* signal triggers every waiting task, each on its own.
C18_RefreshWakesEveryWaiter ==
    /\ [][C18_SignalReachesEveryWaiter]_vars
    /\ []C18_WaiterCanProbeAtOnce
    /\ [][C18_WaiterProbesNext]_vars

\* witness of C18: both tasks had probed once and were asleep, no time has
\* passed, and after the one signal both are probing again with their sleep
\* unfinished
C18_Witness ==
    /\ refreshes = 1
    /\ now = 0
    /\ ~shutdown
    /\ probes = 2
    /\ \A n \in SiteNames :
          /\ pc[n] = "Checking"
          /\ timer[n] > 0
          /\ refresh[n] = 0

\* C19: a task that observes shutdown while in Waiting goes to Terminated
\* without another probe, also when a force-refresh signal or the end of its
\* sleep is pending for it at the same moment.
C19_ShutdownEndsTheWait ==
    [][\A n \in SiteNames :
         (pc[n] = "Waiting" /\ shutdown /\ pc'[n] # pc[n])
         => pc'[n] = "Terminated"]_vars

\* C20: once shutdown is sent, a task completes at most the probe that was in
\* flight and begins no new probe before it terminates, whatever
\* force-refresh signals were sent before or after.
C20_NoProbeBegunAfterShutdown ==
    \A n \in SiteNames : late[n] = 0

----------------------------------------------------------------------------
(* The checker tasks and main under the scheduling of the tokio runtime *)

\* checker.check(&site).await completes after shutdown was sent, also when
\* the probes of the behaviour are used up: the request ends at the latest
\* with its timeout
ProbeAfterShutdown(site_name, result) ==
    /\ pc[site_name] = "Checking"
    /\ shutdown
    /\ probes >= MaxProbes
    /\ pc' = [pc EXCEPT ![site_name] = "Publishing"]
    /\ held' = [held EXCEPT ![site_name] = Some(result)]
    /\ probed' = [probed EXCEPT ![site_name] = Append(@, result)]
    /\ UNCHANGED <<config, now, sites, site_states, alert_history, fed,
                   query_vars, timer, refresh, chan, shutdown, main_pc,
                   notified, probes, late, refreshes, finished>>

\* the steps of the checker task of a site
TaskStep(site_name) ==
    \/ \E result \in ProbeResults : Probe(site_name, result)
    \/ \E result \in ProbeResults : ProbeAfterShutdown(site_name, result)
    \/ Publish(site_name)
    \/ SleepElapsed(site_name)
    \/ ForceRefreshReceived(site_name)
    \/ ShutdownObserved(site_name)

\* the steps main takes without a key being pressed
MainStep ==
    \/ Consume
    \/ DrainEnd
    \/ Join

NextSchedulerFair ==
    \/ \E site_name \in SiteNames : TaskStep(site_name)
    \/ MainStep
    \/ KeyRefresh
    \/ KeyQuit
    \/ Elapse
    \/ \E i \in 1..MaxProbes : NotifyReturns(i)

\* the runtime runs every task that can run, and main; keys, the passing of
\* time and the return of a notify call are under no obligation
SpecSchedulerFair ==
    /\ InitScheduler
    /\ [][NextSchedulerFair]_vars
    /\ \A site_name \in SiteNames : WF_vars(TaskStep(site_name))
    /\ WF_vars(MainStep)

----------------------------------------------------------------------------
(* Shutdown and the samples in flight: C21, C25 *)

\* C21: once shutdown is sent, every task eventually reaches Terminated and
\* main's wait for the tasks eventually ends, whatever the state of the result
\* channel at that moment, a full channel with tasks blocked in send included.
C21_ShutdownCompletes ==
    shutdown ~> (main_pc = "Done" /\ \A n \in SiteNames : pc[n] = "Terminated")

\* the number of results main has handled
Consumed == TotalFed(fed, SiteNames)

\* C25: every sample a task produces before shutdown is sent is eventually
\* consumed by main; a full channel makes the task wait, the sample is not
\* discarded.
C25_SamplesBeforeShutdownConsumed ==
    \A k \in 1..MaxProbes :
        [](( ~shutdown /\ probes >= k) => <>(Consumed >= k))

----------------------------------------------------------------------------
(* Shutdown is sticky, force refresh is not: C22, C23, C24 *)

\* C22: shutdown is sticky: once sent it stays observable, so every task,
\* also one that was in its probe or in send at that moment and looks at the
\* signal only afterwards, observes it at its next wait and goes to
\* Terminated; no task can miss it.
C22_ShutdownSeenAtNextWait ==
    /\ [][shutdown => shutdown']_vars
    /\ [](\A n \in SiteNames :
            (shutdown /\ pc[n] = "Waiting")
            => ENABLED (NextScheduler /\ pc'[n] = "Terminated"))
    /\ [][\A n \in SiteNames :
            (shutdown /\ pc[n] = "Waiting" /\ late[n] = 0 /\ pc'[n] # pc[n])
            => pc'[n] = "Terminated"]_vars

\* C23: main returns Ok only after every checker task has finished: no task
\* is in Checking or Waiting at that point.
C23_DoneOnlyAfterTasks ==
    main_pc = "Done" => \A n \in SiteNames : pc[n] = "Terminated"

\* witness of C23: main has returned after tasks that had probed and
\* published
C23_Witness ==
    /\ main_pc = "Done"
    /\ \A n \in SiteNames : pc[n] = "Terminated" /\ Len(probed[n]) > 0

\* C24: force refresh is not sticky: a signal sent while a task is not
\* waiting (it is in its probe or in send) is dropped for that task, so its
\* next wait is not shortened or skipped by the signal, and a wait is ended
\* by one signal at most.
C24_WaitBeginsWithoutSignal ==
    [][\A n \in SiteNames :
         (pc[n] # "Waiting" /\ pc'[n] = "Waiting") => refresh'[n] = 0]_vars

----------------------------------------------------------------------------
(* The order of the samples, the drain, the notify tasks: C26, C27, C28 *)

\* the first round of a run in which every site answers in time with the
\* expected status
first_result == new_success(1, FALSE)

\* what the detector makes of a site's first result
first_evaluation(cfg, site_name) ==
    evaluate_known(cfg, SiteAlertState_new, site_name, None,
                   first_result.status, 0, 0)

\* main.rs after the first round: every task has probed its site once and
\* sleeps, main has handled the results and is at the top of its loop; the
\* count of the probes starts again from here
InitNotify ==
    /\ config \in SchedulerConfigs
    /\ now = 0
    /\ sites = [n \in SiteNames |->
                  add_result(SiteHistory_new(config.settings.history_size),
                             first_result)]
    /\ site_states = [n \in SiteNames |-> first_evaluation(config, n).state]
    /\ alert_history = AlertHistory_new(config.settings.alerts.alert_history_size)
    /\ fed = [n \in AllNames |->
                IF n \in SiteNames
                THEN <<[status |-> first_result.status,
                        transition |-> first_evaluation(config, n).transition,
                        computed |-> first_evaluation(config, n).computed,
                        at |-> None]>>
                ELSE <<>>]
    /\ NoQueries
    /\ pc = [n \in SiteNames |-> "Waiting"]
    /\ held = [n \in SiteNames |-> None]
    /\ timer = [n \in SiteNames |-> interval_of(config, n)]
    /\ refresh = [n \in SiteNames |-> 0]
    /\ chan = <<>>
    /\ shutdown = FALSE
    /\ main_pc = "Loop"
    /\ notified = <<>>
    /\ probes = 0
    /\ late = [n \in SiteNames |-> 0]
    /\ refreshes = 0
    /\ probed = [n \in SiteNames |-> <<first_result>>]
    /\ finished = {}

\* the run while no key is pressed: the tasks probe, publish and sleep, main
\* drains the channel, the notify tasks return
NextNotify ==
    \/ \E site_name \in SiteNames, result \in ProbeResults :
          Probe(site_name, result)
    \/ \E site_name \in SiteNames : Publish(site_name)
    \/ \E site_name \in SiteNames : SleepElapsed(site_name)
    \/ Consume
    \/ DrainEnd
    \/ Elapse
    \/ \E i \in 1..MaxProbes : NotifyReturns(i)

SpecNotify == InitNotify /\ [][NextNotify]_vars

\* the state after the first round, as a state of the run from the start
AfterFirstRound ==
      /\ \A n \in SiteNames :
            /\ pc[n] = "Waiting"
            /\ timer[n] = interval_of(config, n)
            /\ held[n] = None
            /\ probed[n] = <<first_result>>
            /\ site_states[n] = first_evaluation(config, n).state
            /\ sites[n] = add_result(SiteHistory_new(config.settings.history_size),
                                     first_result)
            /\ fed[n] = <<[status |-> first_result.status,
                           transition |-> first_evaluation(config, n).transition,
                           computed |-> first_evaluation(config, n).computed,
                           at |-> None]>>
      /\ chan = <<>>
      /\ main_pc = "Loop"
      /\ notified = <<>>
      /\ ~shutdown
      /\ now = 0

\* the statuses of a sequence of results, in order
Statuses(seq) == [i \in 1..Len(seq) |-> seq[i].status]

C27_DrainEndsOnEmpty ==
    (main_pc = "Draining" /\ main_pc' # "Draining")
    => (chan = <<>> /\ main_pc' = "Loop")

\* C27, input: no key is handled while main is in a drain
C27_NoInputInDrain ==
    main_pc = "Draining" => (refreshes' = refreshes /\ shutdown' = shutdown)

\* C27, no blocking: in a drain main can take the next result of a channel
\* that has one, and can go round on an empty channel
C27_DrainNeverBlocks ==
    main_pc = "Draining"
    => IF chan = <<>>
       THEN ENABLED (NextScheduler /\ main_pc' = "Loop")
       ELSE ENABLED (NextScheduler /\ chan' = Tail(chan))

\* C27: a drain handles every result that was queued when it began and ends
\* only when the channel is seen empty, without blocking on an empty channel;
\* rendering and input handling never run between two results of a drain.
C27_DrainIsWhole ==
    /\ [][C27_DrainEndsOnEmpty]_vars
    /\ [][C27_NoInputInDrain]_vars
    /\ []C27_DrainNeverBlocks

\* witness of C27: main has handled two results and is still in the drain,
\* on an empty channel
C27_Witness ==
    /\ main_pc = "Draining"
    /\ Consumed = 2
    /\ chan = <<>>
    /\ ~shutdown

\* C28, the dispatch: the alert handed to notify is in the alert history by
\* then
C28_StoredWhenDispatched ==
    notified' # notified
    => /\ Len(notified') = Len(notified) + 1
       /\ Len(alert_history'.alerts) > 0
       /\ notified'[Len(notified')] =
             alert_history'.alerts[Len(alert_history'.alerts)]

\* C28, no waiting: main can take the next queued result whether or not the
\* notify calls have returned
C28_MainNeverAwaitsNotify ==
    (main_pc \in {"Loop", "Draining"} /\ chan # <<>>)
    => ENABLED (NextNotify /\ chan' = Tail(chan))

\* C28, no effect: the return of a notify call, shown or failed, changes no
\* detector state, no history and not the alert history
C28_NotifyChangesNothing ==
    finished' # finished
    => UNCHANGED <<site_states, sites, alert_history, notified, chan, main_pc>>

\* C28: notification dispatch is fire-and-forget: the alert is in the alert
\* history before notify is dispatched, main goes on to the next queued
\* result without waiting for notify, and a notify call that fails or never
\* returns neither holds up later samples nor changes any detector state,
\* history or the alert history.
C28_FireAndForget ==
    /\ [][C28_StoredWhenDispatched]_vars
    /\ []C28_MainNeverAwaitsNotify
    /\ [][C28_NotifyChangesNothing]_vars

\* witness of C28: site "a" went down after its first result, the notify call
\* of that alert has not returned, and main has handled a later result of
\* the site
C28_Witness ==
    /\ Len(fed["a"]) = 3
    /\ fed["a"][2].transition # None
    /\ Len(notified) >= 1
    /\ notified[1] = alert_history.alerts[1]
    /\ 1 \notin finished

----------------------------------------------------------------------------
(* The length of the wait: C29 *)

\* the larger of two numbers
Max(x, y) == IF x > y THEN x ELSE y

\* a task begins a wait
BeginsWait(n) == pc[n] # "Waiting" /\ pc'[n] = "Waiting"

\* C29 as stated: the wait of each loop is max(site interval, default
\* interval); a site whose own interval is smaller than the default still
\* waits the default, a site without an interval of its own waits the default.
C29_WaitIsMaxOfIntervals ==
    [][\A n \in SiteNames :
          BeginsWait(n)
          => timer'[n] =
                IF config.sites[n].check_interval = None
                THEN config.settings.refresh_interval
                ELSE Max(unwrap(config.sites[n].check_interval),
                         config.settings.refresh_interval)]_vars

\* C29 amended: the wait of each loop is the site's own interval when it has
\* one, smaller than the default or not, and the default interval when it has
\* none.
C29_WaitIsOverrideOrDefault ==
    [][\A n \in SiteNames :
          BeginsWait(n)
          => timer'[n] =
                IF config.sites[n].check_interval = None
                THEN config.settings.refresh_interval
                ELSE unwrap(config.sites[n].check_interval)]_vars

\* witness of C29: site "a", whose own interval is smaller than the default,
\* waits its own interval, and site "b", which has none, waits the default
C29_Witness ==
    /\ config.sites["a"].check_interval # None
    /\ unwrap(config.sites["a"].check_interval) < config.settings.refresh_interval
    /\ config.sites["b"].check_interval = None
    /\ pc["a"] = "Waiting"
    /\ timer["a"] = unwrap(config.sites["a"].check_interval)
    /\ pc["b"] = "Waiting"
    /\ timer["b"] = config.settings.refresh_interval
    /\ now = 0
    /\ Consumed = 0

----------------------------------------------------------------------------
(* checker/http.rs and checker/types.rs: the classification of a probe *)

\* the bound of the measured response times and of the warning thresholds
MaxLatency == 3
MaxWarningThreshold == 2

\* the status codes a site answers with, and the ones a site is expected to
\* answer with
StatusCodes == {200, 404, 503}
ExpectedStatuses == {200, 404}

\* a reqwest::Error as check looks at it: is_timeout() and is_connect()
RequestErrors == [is_timeout : BOOLEAN, is_connect : BOOLEAN]

\* the outcome of client.get(url).send().await with the time it took
SendOutcomes ==
    {[ok |-> FALSE, error |-> e] : e \in RequestErrors}
    \cup {[ok |-> TRUE, status_code |-> c, elapsed_ms |-> t] :
             c \in StatusCodes, t \in 0..MaxLatency}

\* settings.warning_threshold_ms as check receives it
WarningThresholds == {None} \cup {Some(t) : t \in 0..MaxWarningThreshold}

\* CheckResult::new_down with every field of the result
CheckResult_new_down(error) ==
    [status |-> new_down.status,
     response_time_ms |-> new_down.response_time_ms,
     http_status |-> None,
     error_message |-> Some(error)]

\* new_success: http_status != expected_status
status_mismatch(http_status, expected_status) == http_status # expected_status

\* variant of slow_response: a response time equal to the threshold is slow
slow_response_at_least(response_time_ms, warning_threshold_ms) ==
    LET filtered == IF warning_threshold_ms # None
                       /\ unwrap(warning_threshold_ms) > 0
                    THEN warning_threshold_ms ELSE None
    IN  filtered # None /\ response_time_ms >= unwrap(filtered)

\* new_success: warning_threshold_ms.filter(|&t| t > 0)
\*                                  .is_some_and(|t| response_time_ms > t)
slow_response(response_time_ms, warning_threshold_ms) ==
    LET filtered == IF warning_threshold_ms # None
                       /\ unwrap(warning_threshold_ms) > 0
                    THEN warning_threshold_ms ELSE None
    IN  filtered # None /\ response_time_ms > unwrap(filtered)

\* CheckResult::new_success with every field of the result
CheckResult_new_success(response_time_ms, http_status, expected_status, warning_threshold_ms) ==
    LET r == new_success(response_time_ms,
                         status_mismatch(http_status, expected_status)
                         \/ slow_response(response_time_ms,
                                          warning_threshold_ms))
    IN  [status |-> r.status,
         response_time_ms |-> r.response_time_ms,
         http_status |-> Some(http_status),
         error_message |-> None]

\* check: the text of the error, the error's own text left out
error_msg(e) ==
    IF e.is_timeout THEN "Request timeout"
    ELSE IF e.is_connect THEN "Connection failed"
    ELSE "Request failed"

\* HttpChecker::check for an outcome of the request
check(outcome, expected_status, warning_threshold_ms) ==
    IF outcome.ok
    THEN CheckResult_new_success(outcome.elapsed_ms, outcome.status_code,
                                 expected_status, warning_threshold_ms)
    ELSE CheckResult_new_down(error_msg(outcome.error))

\* the probe under study: what the request comes to, the site's
\* expected_status and the warning threshold
probe == log[1]

\* one call of check
Check ==
    /\ out = None
    /\ out' = Some([query |-> "check", arg |-> Some(probe),
                    value |-> check(probe.outcome, probe.expected_status,
                                    probe.warning_threshold_ms)])
    /\ UNCHANGED <<config, now, sites, site_states, alert_history, fed, log,
                   sched_vars>>

\* every outcome of the request, expected status and threshold
InitProber ==
    /\ InitWith(WithCapacities(1, 1))
    /\ NoTasks
    /\ log \in {<<[outcome |-> o, expected_status |-> s,
                   warning_threshold_ms |-> w]>> :
                   o \in SendOutcomes, s \in ExpectedStatuses,
                   w \in WarningThresholds}
    /\ out = None

NextProber == Check

SpecProber == InitProber /\ [][NextProber]_vars

----------------------------------------------------------------------------
(* The classification of a probe: C30 *)

\* the result of the call of check
checked == unwrap(out).value

----------------------------------------------------------------------------
(* Flapping between the failing statuses: C31 *)

\* every one of the six transition flags is on
AllFlags == \A t \in StatusTransition : Flag(t)

\* the trace f ends with an Up sample followed by failing samples only, each
\* of another status than the one before it (none, one or more of them)
AlternatesSinceUp(f) ==
    \E i \in 1..Len(f) :
        /\ f[i].status = "Up"
        /\ \A k \in (i + 1)..Len(f) :
              /\ Failing(f[k].status)
              /\ f[k].status # f[k - 1].status

\* C31: for a site with alerts enabled, threshold 1 and all six transition
\* flags on: when a site that was Up alternates between Down and Warning on
\* successive samples, every sample of the alternation yields an alert
\* (UpToDown on Down, UpToWarn on Warning), inside the cooldown as well,
\* although the site never returned to Up.
C31_FlappingRealerts ==
    [][\A n \in SiteNames : \A S \in {"Down", "Warning"} :
         (/\ PolicyEnabled(n)
          /\ PolicyThreshold(n) = 1
          /\ AllFlags
          /\ AlternatesSinceUp(fed[n])
          /\ fed[n][Len(fed[n])].status # S
          /\ Feeds(n, S))
         => Fed(n).transition =
               Some(IF S = "Down" THEN "UpToDown" ELSE "UpToWarn")]_vars

\* witness of C31: Up, Down, Warning, Down within one cooldown, three alerts
C31_Witness ==
    \E n \in SiteNames :
        /\ PolicyEnabled(n) /\ PolicyThreshold(n) = 1 /\ AllFlags
        /\ PolicyCooldown(n) = default_cooldown_seconds
        /\ Len(fed[n]) = 4
        /\ fed[n][1].status = "Up"
        /\ fed[n][2].status = "Down" /\ fed[n][2].transition = Some("UpToDown")
        /\ fed[n][3].status = "Warning" /\ fed[n][3].transition = Some("UpToWarn")
        /\ fed[n][4].status = "Down" /\ fed[n][4].transition = Some("UpToDown")
        /\ unwrap(fed[n][4].at) - unwrap(fed[n][2].at) < PolicyCooldown(n)

----------------------------------------------------------------------------
(* The status a transition is taken from: C32, C33 *)

\* the Transition of a pair of statuses as the spec lists them; none for a
\* pair of equal statuses
Derived(from, to) ==
    IF from = to THEN None
    ELSE Some(CASE from = "Up" /\ to = "Down" -> "UpToDown"
                [] from = "Up" /\ to = "Warning" -> "UpToWarn"
                [] from = "Down" /\ to = "Up" -> "DownToUp"
                [] from = "Down" /\ to = "Warning" -> "DownToWarn"
                [] from = "Warning" /\ to = "Up" -> "WarnToUp"
                [] from = "Warning" /\ to = "Down" -> "WarnToDown")

\* the position in the trace f of the sample just before the failing streak
\* that ends f; 0 when the streak starts with the first sample
BeforeStreak(f) == Len(f) - FailingTail(f)

\* C32: for every alert accepted on a failing sample (Down or Warning) the
\* transition is derived from (stable_status, current status) and not from the
\* sample just before: in a streak that began from Up, such as Up, Warning,
\* ..., Down, the alert on Down is UpToDown and never WarnToDown.
C32_FailingAlertFromStable ==
    [][\A n \in SiteNames : \A S \in {"Down", "Warning"} :
         (Feeds(n, S) /\ Fed(n).transition # None)
         => /\ site_states'[n].stable_status # None
            /\ Fed(n).transition =
                  Derived(unwrap(site_states'[n].stable_status), S)
            /\ (/\ BeforeStreak(fed'[n]) >= 1
                /\ fed'[n][BeforeStreak(fed'[n])].status = "Up")
               => Fed(n).transition = Derived("Up", S)]_vars

\* witness of C32: warn_to_down is on, the streak Warning, Down began from Up
\* and its Down sample yielded UpToDown
C32_Witness ==
    \E n \in SiteNames :
        /\ Flag("WarnToDown")
        /\ Len(fed[n]) = 3
        /\ fed[n][1].status = "Up"
        /\ fed[n][2].status = "Warning"
        /\ fed[n][3].status = "Down"
        /\ fed[n][3].transition = Some("UpToDown")

\* C33: for every alert accepted on an Up sample the transition is derived
\* from the status of the sample just before (DownToUp after Down, WarnToUp
\* after Warning), whatever stable_status is and however the streak began;
\* an Up sample that follows an Up sample, or is the first sample of the
\* site, yields no alert.
C33_RecoveryFromPrevious ==
    [][\A n \in SiteNames :
         Feeds(n, "Up")
         => IF Len(fed[n]) = 0 \/ fed[n][Len(fed[n])].status = "Up"
            THEN Fed(n).transition = None
            ELSE Fed(n).transition # None
                 => Fed(n).transition =
                       Derived(fed[n][Len(fed[n])].status, "Up")]_vars

\* witness of C33: a streak Down, Warning that began from Up ends with an Up
\* sample, which yielded WarnToUp
C33_Witness ==
    \E n \in SiteNames :
        /\ Len(fed[n]) = 4
        /\ fed[n][1].status = "Up"
        /\ fed[n][2].status = "Down"
        /\ fed[n][3].status = "Warning"
        /\ fed[n][4].status = "Up"
        /\ fed[n][4].transition = Some("WarnToUp")

----------------------------------------------------------------------------
(* The policy of a site, field by field: C34 *)

\* the transition evaluate derives for a sample of status S of site n once
\* the sample has passed the threshold and the cooldown: from the status of
\* the sample before for Up, from the stable status for a failing sample
DerivedFor(n, S) ==
    LET from == IF S = "Up"
                THEN (IF Len(fed[n]) = 0 THEN None
                      ELSE Some(fed[n][Len(fed[n])].status))
                ELSE site_states'[n].stable_status
    IN  IF from = None THEN None ELSE Derived(unwrap(from), S)

\* the sample of status S of site n is inside the cooldown of the site's
\* last alert, under a cooldown of c seconds
Cooling(n, S, c) ==
    /\ site_states[n].last_alert_time # None
    /\ now - unwrap(site_states[n].last_alert_time) < c
    /\ site_states[n].last_alert_status = Some(S)

\* C34: the policy evaluate applies is resolved field by field: for each of
\* enabled, the consecutive-failure threshold and the cooldown it uses the
\* site's override when that field is present and the global setting
\* otherwise, whether or not the site overrides the other fields.
C34_PolicyFieldByField ==
    [][\A n \in SiteNames : \A S \in Status :
         Feeds(n, S) =>
         LET failures == IF Failing(S)
                         THEN site_states[n].consecutive_failures + 1 ELSE 0
             held_back == Failing(S) /\ failures < PolicyThreshold(n)
         IN  IF ~PolicyEnabled(n)
             THEN /\ Fed(n).transition = None
                  /\ site_states'[n] = site_states[n]
             ELSE /\ site_states'[n].consecutive_failures = failures
                  /\ Fed(n).computed =
                        IF held_back \/ Cooling(n, S, PolicyCooldown(n))
                        THEN None ELSE DerivedFor(n, S)]_vars

\* witness of C34: alerts are on globally with a threshold above 1 and the
\* default cooldown,
\* the table of the site sets the threshold, 1, and nothing else: the first
\* Down after Up yielded the alert and the second, inside the global
\* cooldown, none
C34_Witness ==
    \E n \in SiteNames :
        /\ config.settings.alerts.enabled
        /\ config.settings.alerts.consecutive_failures > 1
        /\ config.sites[n].alerts =
              Some([enabled |-> None, consecutive_failures |-> Some(1),
                    cooldown_seconds |-> None])
        /\ Len(fed[n]) = 3
        /\ fed[n][1].status = "Up"
        /\ fed[n][2].status = "Down" /\ fed[n][2].transition = Some("UpToDown")
        /\ fed[n][3].status = "Down" /\ fed[n][3].computed = None

----------------------------------------------------------------------------
(* The loop of a checker task: C35 *)

\* the state of a site's loop as the spec names it: the probe and the send of
\* its result are the Checking phase
Phase(p) == IF p = "Publishing" THEN "Checking" ELSE p

\* the results of site n in the channel c
InChannel(c, n) == Len(SelectSeq(c, LAMBDA m : m[1] = n))

\* the number of samples site n has published: the ones main has taken and
\* the ones still in the channel
Published(n) == Len(fed[n]) + InChannel(chan, n)

\* C35, the phases: a loop is in Checking until its first probe, and a phase
\* that is over has made one probe and published one sample; in the phase
\* under way the probe is made and not yet published, or not yet made
C35_OneProbeOneSample ==
    \A n \in SiteNames :
        /\ Len(probed[n]) = 0 => pc[n] = "Checking"
        /\ pc[n] = "Publishing"
           => /\ Published(n) + 1 = Len(probed[n])
              /\ held[n] = Some(probed[n][Len(probed[n])])
        /\ pc[n] # "Publishing" => Published(n) = Len(probed[n])

\* C35, the steps: Checking -> Waiting -> {Checking | Terminated}; a probe is
\* made only in Checking and a sample, the one probed, is published only at
\* the end of Checking; a terminated loop stays terminated, probes no more
\* and publishes no more
C35_LoopSteps ==
    \A n \in SiteNames :
        /\ Phase(pc'[n]) # Phase(pc[n])
           => <<Phase(pc[n]), Phase(pc'[n])>> \in
                 {<<"Checking", "Waiting">>, <<"Waiting", "Checking">>,
                  <<"Waiting", "Terminated">>}
        /\ probed'[n] # probed[n]
           => /\ pc[n] = "Checking" /\ pc'[n] = "Publishing"
              /\ Len(probed'[n]) = Len(probed[n]) + 1
              /\ SubSeq(probed'[n], 1, Len(probed[n])) = probed[n]
        /\ InChannel(chan', n) > InChannel(chan, n)
           => /\ Phase(pc[n]) = "Checking" /\ pc'[n] = "Waiting"
              /\ chan' = Append(chan, <<n, probed[n][Len(probed[n])]>>)
        /\ (Phase(pc[n]) = "Checking" /\ pc'[n] = "Waiting")
           => InChannel(chan', n) = InChannel(chan, n) + 1
        /\ pc[n] = "Terminated"
           => /\ pc'[n] = "Terminated"
              /\ probed'[n] = probed[n]
              /\ InChannel(chan', n) <= InChannel(chan, n)

\* C35: each loop follows Checking -> Waiting -> {Checking | Terminated}: it
\* starts in Checking, every Checking phase makes exactly one probe and
\* publishes exactly one sample (one Down sample when the probe fails, with no
\* retry inside the phase), Terminated is entered only from Waiting, and a
\* terminated loop never probes or publishes again.
C35_CheckingWaitingTerminated ==
    []C35_OneProbeOneSample /\ [][C35_LoopSteps]_vars

\* witness of C35: a loop whose probe failed published the one Down sample,
\* went through a second Checking phase and is terminated
C35_Witness ==
    \E n \in SiteNames :
        /\ pc[n] = "Terminated"
        /\ Len(probed[n]) = 2
        /\ probed[n][1].status = "Down"
        /\ Published(n) = 2

----------------------------------------------------------------------------
(* What stable_status can be under handle_check_result: C36, C38 *)

\* C36: when evaluate is driven through handle_check_result only, where the
\* previous status is the status of the store's latest result, stable_status
\* of every site is none or Up in every reachable state, never Down or
\* Warning; so no alert of kind WarnToDown or DownToWarn is ever emitted,
\* whatever the transition flags, the threshold and the cooldown are.
C36_StableIsNoneOrUp ==
    /\ \A n \in DOMAIN site_states :
          site_states[n].stable_status \in {None, Some("Up")}
    /\ \A n \in AllNames : \A i \in 1..Len(fed[n]) :
          fed[n][i].transition \notin {Some("WarnToDown"), Some("DownToWarn")}
    /\ \A i \in 1..Len(alert_history.alerts) :
          alert_history.alerts[i].transition \notin {"WarnToDown", "DownToWarn"}

\* witness of C36: warn_to_down and down_to_warn are on, the site went from
\* Up to Warning to Down and back to Warning, with an alert on the Down sample
C36_Witness ==
    \E n \in SiteNames :
        /\ Flag("WarnToDown") /\ Flag("DownToWarn")
        /\ Len(fed[n]) = 4
        /\ fed[n][1].status = "Up"
        /\ fed[n][2].status = "Warning"
        /\ fed[n][3].status = "Down" /\ fed[n][3].transition # None
        /\ fed[n][4].status = "Warning"
        /\ site_states[n].stable_status = Some("Up")

\* no sample of the trace f up to position i is Up
NeverUpYet(f, i) == \A k \in 1..i : f[k].status # "Up"

\* C38: if the first sample of a site is failing, stable_status stays none for
\* that whole streak and no alert is emitted for the site until it has been
\* Up once, however long the streak lasts and whatever the threshold, the
\* cooldown and the flags are.
C38_NoAlertBeforeFirstUp ==
    \A n \in SiteNames :
        /\ \A i \in 1..Len(fed[n]) :
              NeverUpYet(fed[n], i)
              => fed[n][i].transition = None /\ fed[n][i].computed = None
        /\ (Len(fed[n]) > 0 /\ NeverUpYet(fed[n], Len(fed[n])))
           => /\ site_states[n].stable_status = None
              /\ \A i \in 1..Len(alert_history.alerts) :
                    alert_history.alerts[i].site_name # n

\* witness of C38: alerts are on with every flag, the threshold is passed and
\* the clock has gone on by the cooldown, the site has had four failing
\* samples of both kinds and no Up
C38_Witness ==
    \E n \in SiteNames :
        /\ PolicyEnabled(n) /\ AllFlags
        /\ Len(fed[n]) = 4
        /\ NeverUpYet(fed[n], 4)
        /\ PolicyThreshold(n) < 4
        /\ \E i, j \in 1..4 : fed[n][i].status # fed[n][j].status
        /\ now >= PolicyCooldown(n)
        /\ site_states[n].consecutive_failures = 4
        /\ site_states[n].stable_status = None

----------------------------------------------------------------------------
(* The fields of a stored alert: C37 *)

\* C37: every alert in the alert history is consistent in itself: its
\* transition is the Transition derived from its own previous_status and
\* current_status, so its previous_status is never its current_status.
C37_AlertFieldsAgree ==
    \A i \in 1..Len(alert_history.alerts) :
        LET alert == alert_history.alerts[i]
        IN  /\ alert.previous_status # alert.current_status
            /\ Some(alert.transition) =
                  Derived(alert.previous_status, alert.current_status)

----------------------------------------------------------------------------
(* A sustained outage: C39 *)

\* the trace f ends with an Up sample followed by Down samples only, one at
\* least, and an alert was accepted on one of them
OutageAlerted(f) ==
    \E i \in 1..Len(f) :
        /\ f[i].status = "Up"
        /\ i < Len(f)
        /\ \A k \in (i + 1)..Len(f) : f[k].status = "Down"
        /\ \E k \in (i + 1)..Len(f) : f[k].transition = Some("UpToDown")

\* C39: for a site with alerts enabled and up_to_down on, in an unbroken
\* streak of Down samples that began from Up and has reached the threshold,
\* the first Down sample processed once the cooldown has elapsed since the
\* last accepted alert yields UpToDown again: a sustained outage alerts once
\* per cooldown period, not once per outage.
C39_OutageRealertsAfterCooldown ==
    [][\A n \in SiteNames :
         (/\ PolicyEnabled(n)
          /\ Flag("UpToDown")
          /\ OutageAlerted(fed[n])
          /\ now - unwrap(fed[n][LastAlert(n)].at) >= PolicyCooldown(n)
          /\ Feeds(n, "Down"))
         => Fed(n).transition = Some("UpToDown")]_vars

\* witness of C39: under a cooldown of 300 seconds one outage has two UpToDown
\* alerts, a cooldown apart, with a Down sample in between that yielded none
C39_Witness ==
    \E n \in SiteNames :
        /\ PolicyCooldown(n) = default_cooldown_seconds
        /\ Len(fed[n]) = 4
        /\ fed[n][1].status = "Up"
        /\ fed[n][2].status = "Down" /\ fed[n][2].transition = Some("UpToDown")
        /\ fed[n][3].status = "Down" /\ fed[n][3].transition = None
        /\ fed[n][4].status = "Down" /\ fed[n][4].transition = Some("UpToDown")
        /\ unwrap(fed[n][4].at) - unwrap(fed[n][2].at) >= PolicyCooldown(n)

----------------------------------------------------------------------------
(* The sites side by side: handle_check_result with a record of its calls *)

\* handle_check_result with the call written down: the name, the status and
\* the two clock readings of evaluate
HandleLogged(site_name, result, dt) ==
    /\ handle_check_result(site_name, result, dt)
    /\ log' = Append(log, [site_name |-> site_name, status |-> result.status,
                           t |-> now, t2 |-> now + dt])
    /\ UNCHANGED <<out, sched_vars>>

\* two sites under one policy or with a cooldown of its own for site "a"
InitIsolation ==
    /\ InitWith(Configs({TRUE}, {1}, {default_cooldown_seconds},
                        {TransitionSettings_default},
                        {NoOverride,
                         Some([enabled |-> None, consecutive_failures |-> None,
                               cooldown_seconds |-> Some(0)])}))
    /\ NoQueries /\ NoTasks

\* the samples of the two sites in any order, answered in time or not, with
\* the clock going on between them
NextIsolation ==
    \/ \E site_name \in SiteNames, result \in ProbeResults :
          HandleLogged(site_name, result, 0)
    \/ Tick /\ UNCHANGED <<query_vars, sched_vars>>

SpecIsolation == InitIsolation /\ [][NextIsolation]_vars

----------------------------------------------------------------------------
(* Sites do not touch each other: C40 *)

\* the calls of the record that were made for site n, in order
OwnCalls(n) == SelectSeq(log, LAMBDA c : c.site_name = n)

\* the detector state of site n and the transitions returned for it, worked
\* out from the first k of the given calls alone
RECURSIVE Replayed(_, _, _)
Replayed(n, calls, k) ==
    IF k = 0 THEN [state |-> SiteAlertState_new, returned |-> <<>>]
    ELSE LET before == Replayed(n, calls, k - 1)
             previous_status == IF k = 1 THEN None
                                ELSE Some(calls[k - 1].status)
             ev == evaluate_known(config, before.state, n, previous_status,
                                  calls[k].status, calls[k].t, calls[k].t2)
         IN  [state |-> ev.state,
              returned |-> Append(before.returned, ev.transition)]

\* C40, the outcome: the AlertState of a site, the alerts returned for it and
\* its history are what the site's own calls, with their times, give
C40_OwnCallsDecide ==
    \A n \in SiteNames :
        LET calls == OwnCalls(n)
            replay == Replayed(n, calls, Len(calls))
        IN  /\ site_states[n] = replay.state
            /\ [i \in 1..Len(fed[n]) |-> fed[n][i].transition] = replay.returned
            /\ Statuses(sites[n].results) =
                  LastOf([i \in 1..Len(calls) |-> calls[i].status],
                         Min(Len(calls), Len(sites[n].results)))

\* C40, the step: a call for site n leaves the history and the AlertState of
\* every other site as they were, and adds to the alert history nothing or
\* one alert, of site n
C40_OthersUnchanged ==
    \A n \in SiteNames : \A S \in Status :
        Feeds(n, S)
        => /\ \A m \in SiteNames \ {n} :
                 /\ sites'[m] = sites[m]
                 /\ site_states'[m] = site_states[m]
                 /\ fed'[m] = fed[m]
           /\ \/ alert_history' = alert_history
              \/ /\ Len(alert_history'.alerts) > 0
                 /\ alert_history'.alerts[Len(alert_history'.alerts)].site_name = n
                 /\ alert_history' =
                       add_alert(alert_history,
                                 alert_history'.alerts[Len(alert_history'.alerts)])

\* C40: the sites are isolated in the state of the app: processing a sample
\* of site A changes only A's history and A's AlertState, and may append one
\* alert of A to the alert history; the history and the AlertState of every
\* other site are unchanged, so the alerts of a site depend only on the
\* site's own samples and their times.
C40_SitesIsolated ==
    []C40_OwnCallsDecide /\ [][C40_OthersUnchanged]_vars

\* witness of C40: the samples of two sites were processed in turn, Up and
\* Down for each, and each site has its own alert
C40_Witness ==
    /\ Len(log) = 4
    /\ log[1].site_name = "a" /\ log[1].status = "Up"
    /\ log[2].site_name = "b" /\ log[2].status = "Up"
    /\ log[3].site_name = "a" /\ log[3].status = "Down"
    /\ log[4].site_name = "b" /\ log[4].status = "Down"
    /\ fed["a"][2].transition = Some("UpToDown")
    /\ fed["b"][2].transition = Some("UpToDown")
    /\ Len(alert_history.alerts) = 2
    /\ alert_history.alerts[1].site_name = "a"
    /\ alert_history.alerts[2].site_name = "b"

====
